---- MODULE Spec2Model ----
(***************************************************************************)
(* web2app: build orchestration around the Neutralino CLI.                 *)
(*                                                                         *)
(* Two editions of the program are modelled, selected by `variant`:        *)
(*   "js"  - bin/web2app-cli.js  (project-local runtime cache ./bin)       *)
(*   "cjs" - bin/web2app-cli.cjs (shared runtime cache, copied to ./bin)   *)
(*                                                                         *)
(* SpecEnsure : the runtime provisioner (ensureNeutralinoBinaries and      *)
(*              downloadNeutralinoDirectly), one step per await.           *)
(* SpecLocate : the tool locator (findNeutralinoCommand) and               *)
(*              resolveNeutralinoCommand with its installs.                *)
(***************************************************************************)
EXTENDS Integers, Sequences, FiniteSets, TLC

(***************************************************************************)
(* Program constants                                                       *)
(***************************************************************************)
NEU_BINARIES ==
  << "neutralino-linux_x64",
     "neutralino-linux_armhf",
     "neutralino-linux_arm64",
     "neutralino-mac_x64",
     "neutralino-mac_arm64",
     "neutralino-mac_universal",
     "neutralino-win_x64.exe" >>

NeuBinarySet == { NEU_BINARIES[i] : i \in 1..Len(NEU_BINARIES) }

\* A tag is a string, modelled as the sequence of its tokens; only the
\* leading "v" is ever inspected by the program.
DEFAULT_NEU_TAG == << "v", "6.4.0" >>

\* null, undefined and "" are all falsy in the tests the program makes.
NoTag == << >>

ZipName == "neutralinojs.zip"

(***************************************************************************)
(* Environment inputs (small sets)                                         *)
(***************************************************************************)
Variants == { "js", "cjs" }

\* values of process.env.WEB2APP_NEU_DIRECT
DirectEnvValues == { "unset", "1", "true", "0" }

\* values of process.env.WEB2APP_NEU_TAG and process.env.NEUTRALINO_TAG
TagEnvValues == { NoTag, << "6.3.0" >>, << "v", "6.2.0" >> }

\* tag_name values the release-metadata endpoint may report
LatestTagNames == { << "v", "6.5.0" >>, << "6.5.0" >> }

\* outcomes of the release-metadata request
MetaOutcomes == { "ok", "notag", "badjson", "status", "error", "timeout" }

\* outcomes of the archive download
DownloadOutcomes == { "ok", "status", "redirects", "timeout", "error" }

\* outcomes of `neu update --latest` as runCommand sees them
UpdateOutcomes == { "exit0", "exitNonZero", "timeout" }

\* what the extracted archive tree may contain of the required binaries:
\* nothing, one of them, all but one, all of them
ArchiveContents ==
  { S \in SUBSET { "neutralino-linux_x64", "neutralino-linux_armhf",
                   "neutralino-linux_arm64", "neutralino-mac_x64",
                   "neutralino-mac_arm64", "neutralino-mac_universal",
                   "neutralino-win_x64.exe" } :
      Cardinality(S) \in { 0, 1, 6, 7 } }

\* the index of the file at which fs.copyFileSync throws (0: it does not)
CopyFailPoints == { 0, 4 }

(***************************************************************************)
(* State                                                                   *)
(***************************************************************************)
VARIABLES
  variant,        \* which edition runs
  envDirect,      \* process.env.WEB2APP_NEU_DIRECT
  fs,             \* directories: "bin" (<baseDir>/bin), "shared" (shared
                  \* runtime cache, cjs), "tmp" (.neu_download)
  ePc,            \* position of ensureNeutralinoBinaries
  eOutcome,       \* how it ended: "none", "ok" or the error thrown
  errMissing,     \* the missing list carried by the incomplete-download error
  forcedTag,      \* local of downloadNeutralinoDirectly (NoTag outside it)
  tag,            \* local of downloadNeutralinoDirectly (NoTag outside it)
  latest,         \* how the release-metadata lookup ended (NoLookup: not made)
  triedNeuUpdate, \* local of ensureNeutralinoBinaries (js)
  updateFailed,   \* the await of `neu update` rejected (and was caught)
  warnedStillMissing, \* the "returned success but binaries are still missing" warning
  cacheAtStart,   \* files of the cache directory when ensure was called
  nUpdate,        \* `neu update` spawns of this ensure
  nMeta,          \* release-metadata requests of this ensure
  nDownload,      \* archive downloads started by this ensure
  directStarted,  \* downloadNeutralinoDirectly was called by this ensure
  written,        \* cache files written (copied) by this ensure
  removed,        \* files of cacheAtStart deleted by this ensure
  prevOk          \* the previous ensure on this host returned normally

envVars  == << variant, envDirect >>
locVars  == << forcedTag, tag, latest, triedNeuUpdate, updateFailed,
               warnedStillMissing, errMissing >>
histVars == << cacheAtStart, nUpdate, nMeta, nDownload,
               directStarted, written, removed, prevOk >>
ensureVars == << envVars, fs, ePc, eOutcome, locVars, histVars >>

\* Tool locator and resolver
VARIABLES
  platform,       \* process.platform: "win32" or another ("linux")
  isBun,          \* process.versions.bun is set (cjs edition)
  envNeuBin,      \* process.env.NEU_BIN (NoPath: unset or empty)
  envAppData,     \* process.env.APPDATA (NoPath: unset)
  envPath,        \* process.env.Path split at ";" (win32)
  pathFiles,      \* the files that exist in the directories of envPath
  npmBin,         \* what `npm bin -g` prints (NoPath: it failed)
  located,        \* the lines `where neu` / `which neu` prints
  working,        \* the commands whose version probe exits with code 0
  rPc,            \* position of resolveNeutralinoCommand
  rResult,        \* the command it returned
  rOutcome,       \* "none", "ok" or the error it threw
  mainPhase,      \* main flow: "resolve", then "provision" or "failed"
  workingAtStart, \* `working` when resolveNeutralinoCommand was called
  findCalls,      \* calls of findNeutralinoCommand so far
  firstFound,     \* what its first call returned
  lastFound,      \* what its last call returned
  probes,         \* the commands its last call probed, in order
  setsBuilt,      \* candidate sets built so far
  pathScans,      \* scans of the Path directories so far
  npmBinCalls,    \* `npm bin -g` invocations so far
  locatorCalls,   \* `where` / `which` invocations so far
  installs,       \* the installs run so far, in order
  sharedFailed    \* the shared-prefix install rejected (cjs)

locEnvVars  == << platform, isBun, envNeuBin, envAppData, envPath, pathFiles,
                  npmBin, located >>
locHistVars == << workingAtStart, findCalls, firstFound, lastFound, probes,
                  setsBuilt, pathScans, npmBinCalls, locatorCalls, installs,
                  sharedFailed >>
locateVars  == << locEnvVars, working, rPc, rResult, rOutcome, mainPhase,
                  locHistVars >>

\* Subprocess runner: one runCommand session
VARIABLES
  allowFail,      \* opts.allowFail
  timeoutMs,      \* opts.timeoutMs ("null": not given)
  stdinData,      \* opts.stdinData ("null": not given)
  capturedStdout, \* length of the captured stdout text
  capturedStderr, \* length of the captured stderr text
  stdinClosed,    \* local flag of runCommand
  timedOut,       \* local flag of runCommand
  finished,       \* local flag of runCommand
  timer,          \* "null", "armed", "fired" (callback ran) or "cleared"
  stdinWritable,  \* p.stdin.writable
  stdinEnded,     \* p.stdin.end() was called
  stdinWrites,    \* p.stdin.write calls so far
  child,          \* "running", "exited", "failed" ('error' emitted), "closed"
  kills,          \* p.kill() calls so far
  promise,        \* the promise runCommand returned
  warnings,       \* console.warn calls of finalize
  crashed,        \* an 'error' event found no listener (uncaught exception)
  atSettle,       \* stdin ended / timer state when the promise settled
  nChunks,        \* data events so far
  lastChunk,      \* the last data event: stream and text
  lastWrote       \* p.stdin.write calls made by the last data event

runOptVars  == << allowFail, timeoutMs, stdinData >>
runHistVars == << atSettle, nChunks, lastChunk, lastWrote >>
runVars     == << runOptVars, capturedStdout, capturedStderr, stdinClosed,
                  timedOut, finished, timer, stdinWritable, stdinEnded,
                  stdinWrites, child, kills, promise, warnings, crashed,
                  runHistVars >>

\* Network fetcher: one downloadWithRedirect call chain
VARIABLES
  url,            \* the url argument of the current call
  redirectCount,  \* the redirectCount argument of the current call
  requests,       \* client.get calls so far
  responses,      \* the responses received so far, in order
  dlState,        \* "request", "piping", "resolved" or "rejected"
  dlError,        \* the error the promise rejected with ("none" otherwise)
  destFile        \* the file at destPath: "absent", "old" (as it was
                  \* before the call) or "new" (opened by createWriteStream)

fetchVars == << url, redirectCount, requests, responses, dlState, dlError,
               destFile >>

\* Main flow after provisioning: the build and what follows it
VARIABLES
  appDir,         \* web2app_build: resources folder, release zip, output dir
  builds,         \* spawns of `neu build` so far
  binAtBuild,     \* files of <appDir>/bin when `neu build` was spawned
  buildOutcome,   \* "none", or how `neu build` ended
  mainError,      \* the error that ended the main flow ("none" otherwise)
  cleanupRan,     \* the post-build cleanup loop ran
  cleanupWarned,  \* the cleanup targets whose removal failed (warned)
  exitCode,       \* the exit code of the process ("none": still running)
  binaryName,     \* the binary name derived from the app name (tokens)
  listed,         \* what listExecutables returned after the build
  listCalls,      \* calls of listExecutables so far
  diagnostic      \* what was printed for the fatal error: "none",
                  \* "oneLine", "multiLine" or "uncaught" (stack trace)

mainVars == << appDir, builds, binAtBuild, buildOutcome, mainError,
               cleanupRan, cleanupWarned, exitCode, binaryName, listed, listCalls,
               diagnostic >>

\* Output normalisation: flattenNestedOutput on one base directory
VARIABLES
  tree,           \* the base directory: <base>/<name> and what it holds
  flCalls,        \* calls of flattenNestedOutput so far
  lastRet,        \* what the last call returned: "null", "outer" or "threw"
  prevRet,        \* what the call before it returned
  treeBefore      \* the base directory when the last call was made

flattenVars == << tree, flCalls, lastRet, prevRet, treeBefore >>

\* The version probe: getNeuVersion on one candidate command
VARIABLES
  probePlatform,  \* process.platform
  isPs1,          \* the candidate path ends with ".ps1"
  attemptIdx,     \* index of the next attempt of the loop over `attempts`
  probesRun,      \* the invocations spawned so far, with how each ended
  probeOut,       \* stdout of the last invocation (a sequence of lines)
  probeResult     \* what getNeuVersion returned ("pending": still looping)

probeVars == << probePlatform, isPs1, attemptIdx, probesRun, probeOut,
                probeResult >>

\* The release-metadata lookup: one call of fetchLatestNeutralinoTag
VARIABLES
  tqPhase,        \* where the request is: "request" (sent, no response),
                  \* "destroyed" (req.destroy(err) before a response),
                  \* "body" (response received), "aborted" (the response
                  \* was cut short) or "over" ('end' or 'error' delivered)
  tqStatus,       \* res.statusCode (0: no response yet)
  tqBody,         \* the local `body`, a sequence of tokens
  tqPromise       \* the promise fetchLatestNeutralinoTag returned

tagReqVars == << tqPhase, tqStatus, tqBody, tqPromise >>

\* The interactive prompts of web2app-cli.cjs and the first writes after them
VARIABLES
  pPc,          \* "asking", "answered", "scaffolded", "exited"
  question,     \* number of the question that is pending (1..7)
  urlAttempts,  \* `attempts` of the URL loop
  targetUrl,    \* `targetUrl`: NullUrl or the normalised URL
  lastAnswer,   \* what ask() resolved with last
  rlOpen,       \* the readline interface exists and is not closed
  interrupted,  \* the interface's SIGINT listener has run
  pExit,        \* "none" or the code passed to process.exit
  pMessage,     \* what was printed at the end
  created       \* the directories and files created under web2app_build

promptVars == << pPc, question, urlAttempts, targetUrl, lastAnswer, rlOpen,
                 interrupted, pExit, pMessage, created >>

\* Two processes running ensureNeutralinoBinaries (web2app-cli.cjs) at once
VARIABLES
  cfs,           \* the shared cache, the shared download directory and the
                 \* two projects' bin directories
  zipWriters,    \* the processes holding neutralinojs.zip open for writing,
                 \* in the order they opened it
  zipFull,       \* neutralinojs.zip holds the whole archive
  cPc,           \* each process's position
  cIdx,          \* each process's position in NEU_BINARIES inside a loop
  cOut,          \* each process's error, "ok" or "none"
  removedUnder,  \* the other process removed a directory this one was using
  disturbed      \* the other process removed or truncated what this one
                 \* was using

concVars == << cfs, zipWriters, zipFull, cPc, cIdx, cOut, removedUnder,
               disturbed >>

\* moveBuildOutOfBin of the earlier script
VARIABLES
  mTree,    \* <appDir>/bin, the two candidates under it and <appDir>/<name>
  mBefore,  \* mTree when the call was made
  mRet      \* "none", or what the call returned: "target" or "null"

moveVars == << mTree, mBefore, mRet >>

\* what each specification leaves alone
outsideEnsure  == << locateVars, runVars, fetchVars, mainVars, flattenVars,
                     probeVars, tagReqVars, promptVars, concVars, moveVars >>
outsideLocate  == << ensureVars, runVars, fetchVars, mainVars, flattenVars,
                     probeVars, tagReqVars, promptVars, concVars, moveVars >>
outsideRun     == << ensureVars, locateVars, fetchVars, mainVars, flattenVars,
                     probeVars, tagReqVars, promptVars, concVars, moveVars >>
outsideFetch   == << ensureVars, locateVars, runVars, mainVars, flattenVars,
                     probeVars, tagReqVars, promptVars, concVars, moveVars >>
outsideMain    == << runVars, fetchVars, flattenVars, probeVars, tagReqVars,
                     promptVars, concVars, moveVars >>
outsideFlatten == << ensureVars, locateVars, runVars, fetchVars, mainVars,
                     probeVars, tagReqVars, promptVars, concVars, moveVars >>

vars == << ensureVars, locateVars, runVars, fetchVars, mainVars, flattenVars,
           probeVars, tagReqVars, promptVars, concVars, moveVars >>
outsideProbe   == << ensureVars, locateVars, runVars, fetchVars, mainVars,
                     flattenVars, tagReqVars, promptVars, concVars, moveVars >>

outsideTagReq  == << ensureVars, locateVars, runVars, fetchVars, mainVars,
                     flattenVars, probeVars, promptVars, concVars, moveVars >>

outsidePrompt  == << ensureVars, locateVars, runVars, fetchVars, mainVars,
                     flattenVars, probeVars, tagReqVars, concVars, moveVars >>

outsideConc    == << ensureVars, locateVars, runVars, fetchVars, mainVars,
                     flattenVars, probeVars, tagReqVars, promptVars,
                     moveVars >>

outsideMove    == << ensureVars, locateVars, runVars, fetchVars, mainVars,
                     flattenVars, probeVars, tagReqVars, promptVars,
                     concVars >>

\* moveBuildOutOfBin is not under study.
MoveUnused ==
  /\ mTree = << >>
  /\ mBefore = << >>
  /\ mRet = "none"

\* One process only is under study.
ConcUnused ==
  /\ cfs = << >>
  /\ zipWriters = << >>
  /\ zipFull = FALSE
  /\ cPc = << >>
  /\ cIdx = << >>
  /\ cOut = << >>
  /\ removedUnder = << >>
  /\ disturbed = << >>

\* No prompt is under study: the blueprint has been returned.
PromptUnused ==
  /\ pPc = "answered"
  /\ question = 8
  /\ urlAttempts = 1
  /\ targetUrl = << "scheme", "example.com" >>
  /\ lastAnswer = << >>
  /\ rlOpen = FALSE
  /\ interrupted = FALSE
  /\ pExit = "none"
  /\ pMessage = "none"
  /\ created = {}

\* No release-metadata lookup is under study.
TagReqUnused ==
  /\ tqPhase = "over"
  /\ tqStatus = 0
  /\ tqBody = << >>
  /\ tqPromise = [ state |-> "resolved", value |-> DEFAULT_NEU_TAG ]

\* No version probe is under study.
ProbeUnused ==
  /\ probePlatform = "linux"
  /\ isPs1 = FALSE
  /\ attemptIdx = 1
  /\ probesRun = << >>
  /\ probeOut = << >>
  /\ probeResult = [ kind |-> "pending", text |-> << >> ]


\* No output directory is under study.
FlattenUnused ==
  /\ tree = [ base |-> FALSE, outer |-> "none",
              outerEntries |-> [ n \in { "app", "a" } |-> "none" ],
              innerEntries |-> [ n \in { "app", "a" } |-> "none" ] ]
  /\ flCalls = 0
  /\ lastRet = "none"
  /\ prevRet = "none"
  /\ treeBefore = tree

\* The main flow has not gone past provisioning.
MainUnused ==
  /\ appDir = [ resources |-> TRUE, releaseZip |-> FALSE,
                outDir |-> [ exists |-> FALSE, entries |-> {} ] ]
  /\ builds = 0
  /\ binAtBuild = {}
  /\ buildOutcome = "none"
  /\ mainError = "none"
  /\ cleanupRan = FALSE
  /\ cleanupWarned = {}
  /\ exitCode = "none"
  /\ binaryName = << "web", "app" >>
  /\ listed = [ executables |-> {}, archives |-> {} ]
  /\ listCalls = 0
  /\ diagnostic = "none"

\* No download is under study.
FetchUnused ==
  /\ url = << >>
  /\ redirectCount = 0
  /\ requests = 0
  /\ responses = << >>
  /\ dlState = "resolved"
  /\ dlError = "none"
  /\ destFile = "absent"

\* No runCommand session is under study.
RunUnused ==
  /\ allowFail = FALSE
  /\ timeoutMs = "null"
  /\ stdinData = "null"
  /\ capturedStdout = 0
  /\ capturedStderr = 0
  /\ stdinClosed = FALSE
  /\ timedOut = FALSE
  /\ finished = FALSE
  /\ timer = "null"
  /\ stdinWritable = FALSE
  /\ stdinEnded = FALSE
  /\ stdinWrites = 0
  /\ child = "closed"
  /\ kills = 0
  /\ promise = [ state |-> "pending", kind |-> "none", hasCode |-> FALSE,
                 code |-> 0, body |-> [ from |-> "stdout", len |-> 0 ] ]
  /\ warnings = {}
  /\ crashed = FALSE
  /\ atSettle = [ stdinEnded |-> FALSE, timer |-> "null" ]
  /\ nChunks = 0
  /\ lastChunk = [ stream |-> "none", text |-> << >> ]
  /\ lastWrote = 0

(***************************************************************************)
(* File system helpers                                                     *)
(***************************************************************************)
Dirs == { "bin", "shared", "tmp" }

AbsentDir == [ exists |-> FALSE, files |-> {} ]

rmSync_keeps(f, d) == f

\* fs.rmSync(dir, { recursive: true, force: true })
rmSync(f, d) == [ f EXCEPT ![d] = AbsentDir ]

mkdirSync_noop(f, d) == f

\* fs.mkdirSync(dir, { recursive: true })
mkdirSync(f, d) == [ f EXCEPT ![d].exists = TRUE ]

\* fs.existsSync(path.join(dir, file))
existsSync(f, d, file) == f[d].exists /\ file \in f[d].files

\* fs.copyFileSync(path.join(src, file), path.join(dst, file))
copyFileSync(f, src, dst, file) ==
  [ f EXCEPT ![dst].files = @ \cup { file } ]

\* The directory getMissingNeutralinoBinaries inspects and
\* downloadNeutralinoDirectly fills: <baseDir>/bin in the js edition, the
\* shared cache in the cjs edition.
CacheDir(v) == IF v = "js" THEN "bin" ELSE "shared"

(***************************************************************************)
(* Pure functions of the program                                           *)
(***************************************************************************)
\* getMissingNeutralinoBinaries: the required names absent from the
\* directory, in NEU_BINARIES order; all of them when it does not exist.
getMissingNeutralinoBinaries_skipLast(f, d) ==
  IF ~f[d].exists THEN NEU_BINARIES
  ELSE SelectSeq(SubSeq(NEU_BINARIES, 1, Len(NEU_BINARIES) - 1),
                 LAMBDA file : file \notin f[d].files)

getMissingNeutralinoBinaries_inverted(f, d) ==
  IF ~f[d].exists THEN NEU_BINARIES
  ELSE SelectSeq(NEU_BINARIES, LAMBDA file : file \in f[d].files)

getMissingNeutralinoBinaries(f, d) ==
  IF ~f[d].exists THEN NEU_BINARIES
  ELSE SelectSeq(NEU_BINARIES, LAMBDA file : file \notin f[d].files)

\* no release-metadata request has ended
NoLookup == [ made |-> FALSE, ok |-> FALSE, name |-> NoTag ]

\* the request ended as `outcome`; with "ok" the body was JSON with the
\* non-empty tag_name `tagName`
Lookup(outcome, tagName) ==
  [ made |-> TRUE, ok |-> outcome = "ok",
    name |-> IF outcome = "ok" THEN tagName ELSE NoTag ]

\* normalizeNeuTag
normalizeNeuTag(t) ==
  IF t = NoTag THEN DEFAULT_NEU_TAG
  ELSE IF Head(t) = "v" THEN t ELSE << "v" >> \o t

\* preferDirectDownload in ensureNeutralinoBinaries (js)
preferDirectDownload(e) == e = "1" \/ e = "true"

\* the test guarding the direct download in ensureNeutralinoBinaries (js)
needsDirect_flagOnly(prefer, missing) == prefer

needsDirect(prefer, missing) == prefer \/ Len(missing) # 0

fetchLatestNeutralinoTag_statusIgnored(outcome, tagName) ==
  IF outcome \in { "ok", "status" } THEN normalizeNeuTag(tagName)
  ELSE DEFAULT_NEU_TAG

\* fetchLatestNeutralinoTag: the tag its promise resolves with, for each
\* outcome of the metadata request (it never rejects).
fetchLatestNeutralinoTag(outcome, tagName) ==
  IF outcome = "ok" THEN normalizeNeuTag(tagName) ELSE DEFAULT_NEU_TAG

\* runCommand.finalize with allowFail unset: how the promise settles.
runCommandSettles(outcome) ==
  IF outcome = "exit0" THEN "resolve" ELSE "reject"

\* The copy loop of downloadNeutralinoDirectly over NEU_BINARIES[i..]:
\* every required binary present in the extracted tree is copied into the
\* cache directory.  failAt is the index at which copyFileSync throws
\* (0: it never throws); the result carries the file system reached, the
\* files copied and whether the loop threw.
RECURSIVE copyLoop(_, _, _, _, _, _)
copyLoop(f, src, dst, i, failAt, copied) ==
  IF i > Len(NEU_BINARIES) THEN [ fs |-> f, copied |-> copied, threw |-> FALSE ]
  ELSE IF ~existsSync(f, src, NEU_BINARIES[i])
       THEN copyLoop(f, src, dst, i + 1, failAt, copied)
  ELSE IF i = failAt THEN [ fs |-> f, copied |-> copied, threw |-> TRUE ]
  ELSE copyLoop(copyFileSync(f, src, dst, NEU_BINARIES[i]), src, dst, i + 1,
                failAt, copied \cup { NEU_BINARIES[i] })

\* copySharedBinToProject (cjs): the project's bin directory is replaced by
\* a copy of the shared cache; a required binary absent from the shared
\* cache makes it throw.
copySharedLoop_skipsMissing(f, src, dst, i) ==
  [ fs |-> copyLoop(f, src, dst, i, 0, {}).fs, threw |-> FALSE ]

RECURSIVE copySharedLoop(_, _, _, _)
copySharedLoop(f, src, dst, i) ==
  IF i > Len(NEU_BINARIES) THEN [ fs |-> f, threw |-> FALSE ]
  ELSE IF ~existsSync(f, src, NEU_BINARIES[i]) THEN [ fs |-> f, threw |-> TRUE ]
  ELSE copySharedLoop(copyFileSync(f, src, dst, NEU_BINARIES[i]), src, dst, i + 1)

copySharedBinToProject(f, sharedBinDir, projectBinDir) ==
  copySharedLoop(mkdirSync(rmSync(f, projectBinDir), projectBinDir),
                 sharedBinDir, projectBinDir, 1)

(***************************************************************************)
(* Initial states of the provisioner                                       *)
(***************************************************************************)
\* The locator takes no part in this specification.
LocateUnused ==
  /\ platform = "linux"
  /\ isBun = FALSE
  /\ envNeuBin = << >>
  /\ envAppData = << >>
  /\ envPath = << >>
  /\ pathFiles = {}
  /\ npmBin = << >>
  /\ located = << >>
  /\ working = {}
  /\ rPc = "idle"
  /\ rResult = [ cmd |-> << >>, quoted |-> FALSE ]
  /\ rOutcome = "none"
  /\ mainPhase = "resolve"
  /\ workingAtStart = {}
  /\ findCalls = 0
  /\ firstFound = [ cmd |-> << >>, quoted |-> FALSE ]
  /\ lastFound = [ cmd |-> << >>, quoted |-> FALSE ]
  /\ probes = << >>
  /\ setsBuilt = 0
  /\ pathScans = 0
  /\ npmBinCalls = 0
  /\ locatorCalls = 0
  /\ installs = << >>
  /\ sharedFailed = FALSE

CacheInit ==
  { AbsentDir } \cup { [ exists |-> TRUE, files |-> S ] : S \in SUBSET NeuBinarySet }

\* a stale .neu_download left by an interrupted earlier run
TmpInit ==
  { AbsentDir, [ exists |-> TRUE, files |-> { ZipName, NEU_BINARIES[1] } ] }

\* the directory that is not the cache: the project's bin in the cjs
\* edition; the js edition has no shared cache
OtherInit(v) ==
  IF v = "js" THEN { AbsentDir }
  ELSE { AbsentDir,
         [ exists |-> TRUE, files |-> { NEU_BINARIES[1] } ] }

OtherDir(v) == IF v = "js" THEN "shared" ELSE "bin"

InitFs(v) ==
  { [ d \in Dirs |-> IF d = CacheDir(v) THEN c ELSE IF d = "tmp" THEN t ELSE o ] :
      c \in CacheInit, t \in TmpInit, o \in OtherInit(v) }

LocalsInit ==
  /\ forcedTag = NoTag
  /\ latest = NoLookup
  /\ tag = NoTag
  /\ triedNeuUpdate = FALSE
  /\ updateFailed = FALSE
  /\ warnedStillMissing = FALSE
  /\ errMissing = << >>

InitEnsure ==
  /\ variant \in Variants
  /\ envDirect \in DirectEnvValues
  /\ fs \in InitFs(variant)
  /\ ePc = "idle"
  /\ eOutcome = "none"
  /\ LocalsInit
  /\ cacheAtStart = fs[CacheDir(variant)].files
  /\ nUpdate = 0
  /\ nMeta = 0
  /\ nDownload = 0
  /\ directStarted = FALSE
  /\ written = {}
  /\ removed = {}
  /\ prevOk = FALSE
  /\ LocateUnused
  /\ RunUnused
  /\ FetchUnused
  /\ MainUnused
  /\ FlattenUnused
  /\ ProbeUnused
  /\ TagReqUnused
  /\ PromptUnused
  /\ ConcUnused
  /\ MoveUnused

(***************************************************************************)
(* ensureNeutralinoBinaries / downloadNeutralinoDirectly                   *)
(***************************************************************************)
\* ensure returns normally with the cache as in f; the cjs edition first
\* fans the shared cache out into the project.
Finish(f) ==
  IF variant = "js"
  THEN /\ fs' = f
       /\ ePc' = "returned"
       /\ eOutcome' = "ok"
  ELSE LET r == copySharedBinToProject(f, "shared", "bin") IN
       /\ fs' = r.fs
       /\ ePc' = IF r.threw THEN "threw" ELSE "returned"
       /\ eOutcome' = IF r.threw THEN "SharedRuntimeMissing" ELSE "ok"

\* downloadNeutralinoDirectly from the clearing of the stale directories to
\* the issue of the archive request.
PrepareAndDownload(f) ==
  LET cache == CacheDir(variant)
      f1 == rmSync(f, "tmp")
      f2 == rmSync(f1, cache)
      f3 == mkdirSync(f2, "tmp")
  IN /\ fs' = f3
     /\ removed' = removed \cup (f1[cache].files \cap cacheAtStart)
     /\ nDownload' = nDownload + 1
     /\ ePc' = "download"
     /\ eOutcome' = eOutcome

\* downloadNeutralinoDirectly up to its first await: the forced tag is read
\* from the environment; without one the release-metadata request is sent.
DirectBegin(f) ==
  \E w \in TagEnvValues, n \in TagEnvValues :
    LET forced == IF w # NoTag THEN w ELSE IF n # NoTag THEN n ELSE NoTag IN
    /\ forcedTag' = forced
    /\ latest' = latest
    /\ directStarted' = TRUE
    /\ IF forced # NoTag
       THEN /\ tag' = normalizeNeuTag(forced)
            /\ nMeta' = nMeta
            /\ PrepareAndDownload(f)
       ELSE /\ tag' = tag
            /\ nMeta' = nMeta + 1
            /\ fs' = f
            /\ ePc' = "fetchTag"
            /\ UNCHANGED << removed, nDownload, eOutcome >>

\* ensureNeutralinoBinaries (js) from the re-check after the primary
\* acquisition to its next await or its return.
AfterNeu(f, tried) ==
  LET prefer == preferDirectDownload(envDirect)
      missing == getMissingNeutralinoBinaries(f, "bin")
      \* missing is the local missingAfterNeu
  IN /\ IF needsDirect(prefer, missing)
        THEN /\ warnedStillMissing' = (tried /\ ~prefer /\ Len(missing) = 0)
             /\ DirectBegin(f)
        ELSE /\ warnedStillMissing' = warnedStillMissing
             /\ Finish(f)
             /\ UNCHANGED << forcedTag, tag, latest, nMeta, nDownload, directStarted, removed >>

EnsureStartJs ==
  /\ UNCHANGED outsideEnsure
  /\ ePc = "idle"
  /\ variant = "js"
  /\ LET missingBefore == getMissingNeutralinoBinaries(fs, "bin") IN
     IF Len(missingBefore) = 0
     THEN /\ ePc' = "returned"
          /\ eOutcome' = "ok"
          /\ UNCHANGED << fs, locVars, histVars >>
     ELSE IF ~preferDirectDownload(envDirect)
     THEN /\ triedNeuUpdate' = TRUE
          /\ nUpdate' = nUpdate + 1
          /\ ePc' = "neuUpdate"
          /\ UNCHANGED << fs, eOutcome, forcedTag, tag, latest, updateFailed,
                  warnedStillMissing, errMissing,
                          cacheAtStart, nMeta, nDownload, directStarted,
                          written, removed, prevOk >>
     ELSE /\ AfterNeu(fs, FALSE)
          /\ UNCHANGED << triedNeuUpdate, updateFailed, errMissing,
                          cacheAtStart, nUpdate, written, prevOk >>
  /\ UNCHANGED envVars

\* `neu update --latest` has ended: it ran in the project directory and may
\* have put any of the runtimes into ./bin.  A rejection is caught.
NeuUpdateDone ==
  /\ UNCHANGED outsideEnsure
  /\ ePc = "neuUpdate"
  /\ \E o \in UpdateOutcomes, S \in SUBSET (NeuBinarySet \ fs["bin"].files) :
       LET f1 == IF S = {} THEN fs
                 ELSE [ fs EXCEPT !["bin"] =
                          [ exists |-> TRUE, files |-> fs["bin"].files \cup S ] ]
       IN /\ updateFailed' = (runCommandSettles(o) = "reject")
          /\ AfterNeu(f1, triedNeuUpdate)
  /\ UNCHANGED << envVars, triedNeuUpdate, errMissing, cacheAtStart, nUpdate,
                  written, prevOk >>

EnsureStartCjs ==
  /\ UNCHANGED outsideEnsure
  /\ ePc = "idle"
  /\ variant = "cjs"
  /\ LET f1 == mkdirSync(fs, "shared")
         missingShared == getMissingNeutralinoBinaries(f1, "shared")
     IN IF Len(missingShared) = 0
        THEN /\ Finish(f1)
             /\ UNCHANGED << forcedTag, tag, latest, nMeta, nDownload, directStarted,
                             removed >>
        ELSE DirectBegin(f1)
  /\ UNCHANGED << envVars, triedNeuUpdate, updateFailed,
                  warnedStillMissing, errMissing, cacheAtStart, nUpdate,
                  written, prevOk >>

\* fetchLatestNeutralinoTag has resolved.
TagFetched ==
  /\ UNCHANGED outsideEnsure
  /\ ePc = "fetchTag"
  /\ \E o \in MetaOutcomes, name \in LatestTagNames :
       /\ latest' = Lookup(o, name)
       /\ tag' = normalizeNeuTag(fetchLatestNeutralinoTag(o, name))
  /\ PrepareAndDownload(fs)
  /\ UNCHANGED << envVars, forcedTag, triedNeuUpdate, updateFailed,
                  warnedStillMissing, errMissing,
                  cacheAtStart, nUpdate, nMeta, directStarted, written, prevOk >>

DownloadError(o) ==
  CASE o = "status"    -> "UnexpectedStatus"
    [] o = "redirects" -> "TooManyRedirects"
    [] o = "timeout"   -> "DownloadTimeout"
    [] OTHER           -> "DownloadError"

\* downloadWithRedirect has settled.
DownloadDone ==
  /\ UNCHANGED outsideEnsure
  /\ ePc = "download"
  /\ \E o \in DownloadOutcomes :
       IF o = "ok"
       THEN /\ fs' = [ fs EXCEPT !["tmp"].files = @ \cup { ZipName } ]
            /\ ePc' = "extract"
            /\ eOutcome' = eOutcome
            /\ UNCHANGED << forcedTag, tag, latest >>
       ELSE /\ fs' = rmSync(fs, "tmp")
            /\ ePc' = "threw"
            /\ eOutcome' = DownloadError(o)
            /\ forcedTag' = NoTag
            /\ latest' = NoLookup
            /\ tag' = NoTag
  /\ UNCHANGED << envVars, triedNeuUpdate, updateFailed,
                  warnedStillMissing, errMissing, histVars >>

\* extract has settled; on success the copy loop, the cleanup of the
\* temporary directory and the final verification follow without an await.
ExtractDone ==
  /\ UNCHANGED outsideEnsure
  /\ ePc = "extract"
  /\ \E ok \in BOOLEAN, A \in ArchiveContents, failAt \in CopyFailPoints :
       IF ~ok
       THEN /\ A = {}
            /\ failAt = 0
            /\ fs' = rmSync(fs, "tmp")
            /\ ePc' = "threw"
            /\ eOutcome' = "ExtractFailed"
            /\ UNCHANGED << written, errMissing >>
       ELSE LET cache == CacheDir(variant)
                f1 == [ fs EXCEPT !["tmp"].files = @ \cup A ]
                f2 == mkdirSync(f1, cache)
                r  == copyLoop(f2, "tmp", cache, 1, failAt, {})
                f3 == rmSync(r.fs, "tmp")
                missingAfter == getMissingNeutralinoBinaries(f3, cache)
            IN /\ (failAt # 0 => r.threw)
               /\ written' = written \cup r.copied
               /\ IF r.threw
                  THEN /\ fs' = f3
                       /\ ePc' = "threw"
                       /\ eOutcome' = "CopyFailed"
                       /\ errMissing' = errMissing
                  ELSE IF Len(missingAfter) # 0
                  THEN /\ fs' = f3
                       /\ ePc' = "threw"
                       /\ eOutcome' = "IncompleteRuntimeDownload"
                       /\ errMissing' = missingAfter
                  ELSE /\ Finish(f3)
                       /\ errMissing' = errMissing
  /\ forcedTag' = NoTag
  /\ latest' = NoLookup
  /\ tag' = NoTag
  /\ UNCHANGED << envVars, triedNeuUpdate, updateFailed,
                  warnedStillMissing, cacheAtStart, nUpdate,
                  nMeta, nDownload, directStarted, removed, prevOk >>

\* The tool is invoked again on the same host: ensure is called on the
\* file system the previous call left.
EnsureAgain ==
  /\ UNCHANGED outsideEnsure
  /\ ePc \in { "returned", "threw" }
  /\ ePc' = "idle"
  /\ eOutcome' = "none"
  /\ envDirect' \in DirectEnvValues
  /\ prevOk' = (ePc = "returned")
  /\ forcedTag' = NoTag
  /\ latest' = NoLookup
  /\ tag' = NoTag
  /\ triedNeuUpdate' = FALSE
  /\ updateFailed' = FALSE
  /\ warnedStillMissing' = FALSE
  /\ errMissing' = << >>
  /\ cacheAtStart' = fs[CacheDir(variant)].files
  /\ nUpdate' = 0
  /\ nMeta' = 0
  /\ nDownload' = 0
  /\ directStarted' = FALSE
  /\ written' = {}
  /\ removed' = {}
  /\ UNCHANGED << variant, fs >>

NextEnsure ==
  \/ EnsureStartJs
  \/ EnsureStartCjs
  \/ NeuUpdateDone
  \/ TagFetched
  \/ DownloadDone
  \/ ExtractDone
  \/ EnsureAgain

SpecEnsure == InitEnsure /\ [][NextEnsure]_vars

(***************************************************************************)
(* copySharedBinToProject alone, on any shared cache                       *)
(***************************************************************************)
\* the shared cache directories the copy may find
SharedStates ==
  { AbsentDir } \cup { [ exists |-> TRUE, files |-> S ] : S \in SUBSET NeuBinarySet }

\* the project bin directories it may find
ProjectBinStates ==
  { AbsentDir, [ exists |-> TRUE, files |-> { NEU_BINARIES[1], ZipName } ],
    [ exists |-> TRUE, files |-> NeuBinarySet ] }

\* ensureNeutralinoBinaries (cjs) is about to call copySharedBinToProject
InitCopy ==
  /\ variant = "cjs"
  /\ envDirect = "unset"
  /\ \E sh \in SharedStates, b \in ProjectBinStates :
       fs = [ d \in Dirs |-> IF d = "shared" THEN sh
                              ELSE IF d = "bin" THEN b ELSE AbsentDir ]
  /\ ePc = "copy"
  /\ eOutcome = "none"
  /\ LocalsInit
  /\ cacheAtStart = fs["shared"].files
  /\ nUpdate = 0
  /\ nMeta = 0
  /\ nDownload = 0
  /\ directStarted = FALSE
  /\ written = {}
  /\ removed = {}
  /\ prevOk = FALSE
  /\ LocateUnused
  /\ RunUnused
  /\ FetchUnused
  /\ MainUnused
  /\ FlattenUnused
  /\ ProbeUnused
  /\ TagReqUnused
  /\ PromptUnused
  /\ ConcUnused
  /\ MoveUnused

\* copySharedBinToProject(sharedBin, projectBin), the last statement of
\* ensureNeutralinoBinaries
CopyToProject ==
  /\ ePc = "copy"
  /\ Finish(fs)
  /\ UNCHANGED << envVars, locVars, histVars >>
  /\ UNCHANGED outsideEnsure

NextCopy == CopyToProject

SpecCopy == InitCopy /\ [][NextCopy]_vars

(***************************************************************************)
(* Properties of the provisioner                                           *)
(***************************************************************************)
EnsureEnded == ePc \in { "returned", "threw" }

CacheFiles == fs[CacheDir(variant)].files

SeqRange(q) == { q[i] : i \in 1..Len(q) }

\* C1: whenever ensure returns normally, every required runtime binary is
\* in the directory it populated; an incomplete direct download makes it
\* throw, and the error names exactly the files still missing.
C1_ProvisionedOrFailed ==
  /\ ePc = "returned" =>
       /\ fs[CacheDir(variant)].exists
       /\ NeuBinarySet \subseteq CacheFiles
  /\ eOutcome = "IncompleteRuntimeDownload" =>
       /\ ePc = "threw"
       /\ SeqRange(errMissing) # {}
       /\ SeqRange(errMissing) = NeuBinarySet \ CacheFiles

C1_Witness ==
  /\ ePc = "returned"
  /\ nDownload = 1
  /\ ~(NeuBinarySet \subseteq cacheAtStart)

\* C2 (as claimed): a runtime binary present in the cache when ensure
\* starts is still present when ensure ends, on every path.
C2_CacheAdditive ==
  EnsureEnded => cacheAtStart \subseteq CacheFiles

\* C3 (as claimed): with 6 of the 7 binaries cached and the force-direct
\* flag set, a successful ensure has downloaded the archive once, written
\* only the missing binary and deleted none of the 6.
C3_OnlyMissingWritten ==
  ( /\ variant = "js"
    /\ preferDirectDownload(envDirect)
    /\ Cardinality(cacheAtStart) = Len(NEU_BINARIES) - 1
    /\ ePc = "returned" )
  => /\ nDownload = 1
     /\ written = NeuBinarySet \ cacheAtStart
     /\ removed = {}

C5_FallbackAfterUpdateFailure ==
  (variant = "js" /\ updateFailed) =>
    /\ ePc # "idle"
    /\ ePc = "threw" => directStarted
    /\ (ePc = "returned" /\ ~directStarted) => NeuBinarySet \subseteq CacheFiles

C5_Witness ==
  /\ variant = "js"
  /\ updateFailed
  /\ ePc = "threw"
  /\ nDownload = 1

\* C6 (as claimed): with the force-direct flag set and a binary missing,
\* `update` is never spawned and the archive download is started exactly
\* once; with the flag unset and a binary missing, `neu update` is
\* attempted before any direct download.
C6_FlagSelectsPath ==
  ~(NeuBinarySet \subseteq cacheAtStart) =>
    /\ preferDirectDownload(envDirect) =>
         /\ nUpdate = 0
         /\ ePc \in { "download", "extract", "returned", "threw" } => nDownload = 1
    /\ ~preferDirectDownload(envDirect) =>
         /\ directStarted => nUpdate = 1
         /\ EnsureEnded => nUpdate = 1

C31_FanOutFromSharedCache ==
  /\ [](ePc = "returned" =>
          /\ NeuBinarySet \subseteq fs["shared"].files
          /\ fs["bin"] = [ exists |-> TRUE, files |-> NeuBinarySet ])
  /\ [](ePc = "threw" =>
          /\ eOutcome = "SharedRuntimeMissing"
          /\ ~(NeuBinarySet \subseteq fs["shared"].files))
  /\ [][fs'["shared"] = fs["shared"]]_vars

\* the project held one binary and an old archive; it now holds the 7
C31_Witness ==
  /\ ePc = "returned"
  /\ cacheAtStart = NeuBinarySet
  /\ fs["bin"].files = NeuBinarySet
  /\ fs["tmp"] = AbsentDir

\* C31: in the cjs edition every ensure that returns, after a cache hit or
\* after a download, has left all 7 binaries in the project's bin; the
\* build is spawned after no other ensure.
C31_EnsureFansOut ==
  /\ (variant = "cjs" /\ ePc = "returned" /\ ~cleanupRan) =>
       /\ NeuBinarySet \subseteq fs["shared"].files
       /\ fs["bin"] = [ exists |-> TRUE, files |-> NeuBinarySet ]
  /\ (variant = "cjs" /\ builds > 0) => binAtBuild = NeuBinarySet
  /\ eOutcome = "SharedRuntimeMissing" => (ePc = "threw" /\ builds = 0)

\* C29: a rejection of downloadWithRedirect leaves ensure by a throw with
\* the same error, in both editions.
C29_RejectionAbortsEnsure ==
  eOutcome \in { "UnexpectedStatus", "TooManyRedirects", "DownloadTimeout",
                 "DownloadError" } => ePc = "threw"

\* `neu update --latest` was awaited and resolved
UpdateSucceeded ==
  /\ triedNeuUpdate
  /\ ePc # "neuUpdate"
  /\ ~updateFailed

\* C24: in the js edition, when `neu update --latest` ends successfully and
\* a required binary is still missing, the "returned success but binaries
\* are still missing" warning is emitted and the direct download is started.
C24_WarnsWhenUpdateLeavesMissing ==
  (variant = "js" /\ UpdateSucceeded /\ directStarted) => warnedStillMissing

\* t with a "v" in front unless it has one
WithV(t) == IF t[1] = "v" THEN t ELSE << "v" >> \o t

\* the tag of the direct download has been determined
TagDecided == ePc \in { "download", "extract" }

\* C27: with WEB2APP_NEU_TAG or NEUTRALINO_TAG set the tag is that value,
\* with a "v" in front when it has none, and no release-metadata request is
\* made; otherwise one request is made and the tag is the tag it returned
\* (with a "v" in front when it has none), and the default v6.4.0 exactly
\* when the lookup failed.
C27_TagResolution ==
  /\ ePc = "fetchTag" => (forcedTag = NoTag /\ ~latest.made)
  /\ TagDecided =>
       /\ forcedTag # NoTag =>
            /\ tag = WithV(forcedTag)
            /\ nMeta = 0
            /\ ~latest.made
       /\ forcedTag = NoTag =>
            /\ nMeta = 1
            /\ latest.made
            /\ latest.ok => tag = WithV(latest.name)
            /\ tag = << "v", "6.4.0" >> <=> ~latest.ok

\* no tag was forced, the endpoint reported 6.5.0, and v6.5.0 is downloaded
C27_Witness ==
  /\ ePc = "download"
  /\ forcedTag = NoTag
  /\ latest = [ made |-> TRUE, ok |-> TRUE, name |-> << "6.5.0" >> ]
  /\ tag = << "v", "6.5.0" >>

(***************************************************************************)
(* Tool locator: findNeutralinoCommand, resolveNeutralinoCommand           *)
(*                                                                         *)
(* A command or path is the sequence of its path components; << "neu" >>   *)
(* is the bare command.                                                    *)
(***************************************************************************)
\* how many commands may probe successfully in an initial state
MaxWorking == 2

NoPath == << >>

\* a command value: the path, and whether it was wrapped in double quotes
Cmd(path, quoted) == [ cmd |-> path, quoted |-> quoted ]

\* findNeutralinoCommand's null
NullCmd == Cmd(NoPath, FALSE)

BareNeu == << "neu" >>

BunX == << "bun x @neutralinojs/neu" >>

\* the path components that hold a space
SpacedNames == { "neu cli" }

\* candidate.includes(" ")
includesSpace(path) == \E i \in 1..Len(path) : path[i] \in SpacedNames

\* path.join(dir, name)
pathJoin(dir, name) == Append(dir, name)

exeName(p) == IF p = "win32" THEN "neu.cmd" ELSE "neu"

\* path.join(__dirname, "..", "node_modules", ".bin", exeName)
localNeu(p) == << "web2app-cli", "node_modules", ".bin", exeName(p) >>

\* getSharedNeuCliDir (cjs)
getSharedNeuCliDir(p, appData) ==
  IF p = "win32" /\ appData # NoPath
  THEN appData \o << "web2app", "neu-cli" >>
  ELSE << "~", ".web2app", "neu-cli" >>

sharedNeuBin(p, appData) ==
  getSharedNeuCliDir(p, appData) \o << "node_modules", ".bin", exeName(p) >>

\* path.join(process.env.APPDATA, "npm", "neu.cmd"), or null
appDataNeu(p, appData) ==
  IF p = "win32" /\ appData # NoPath THEN appData \o << "npm", "neu.cmd" >>
  ELSE NoPath

\* The array the candidate Set is created from, after filter(Boolean).
baseCandidates_overrideLast(v, p, neuBin, appData) ==
  SelectSeq( << localNeu(p), << exeName(p) >>, appDataNeu(p, appData) >>
             \o (IF v = "cjs" THEN << sharedNeuBin(p, appData) >> ELSE << >>)
             \o << neuBin >>,
             LAMBDA c : c # NoPath )

baseCandidates(v, p, neuBin, appData) ==
  SelectSeq( << neuBin, localNeu(p), << exeName(p) >>, appDataNeu(p, appData) >>
             \o (IF v = "cjs" THEN << sharedNeuBin(p, appData) >> ELSE << >>),
             LAMBDA c : c # NoPath )

\* The manual scan of the Path directories (win32): for each non-empty
\* entry the shims neu.cmd, neu.ps1, neu.exe that exist, in that order.
RECURSIVE scanPath(_, _, _)
scanPath(p, dirs, files) ==
  IF dirs = << >> THEN << >>
  ELSE LET d == Head(dirs) IN
       (IF d = NoPath THEN << >>
        ELSE SelectSeq( << pathJoin(d, exeName(p)), pathJoin(d, "neu.ps1"),
                           pathJoin(d, "neu.exe") >>,
                        LAMBDA c : c \in files ))
       \o scanPath(p, Tail(dirs), files)

pathCandidates(p, dirs, files) ==
  IF p = "win32" /\ dirs # << >> THEN scanPath(p, dirs, files) ELSE << >>

\* the two candidates added when `npm bin -g` succeeds with output
npmCandidates(p, globalBin) ==
  IF globalBin # NoPath
  THEN << pathJoin(globalBin, exeName(p)), pathJoin(globalBin, "neu.ps1") >>
  ELSE << >>

\* Every candidate in the order the program adds it, duplicates included.
rawCandidates(v, p, neuBin, appData, dirs, files, globalBin, lines) ==
  baseCandidates(v, p, neuBin, appData)
  \o pathCandidates(p, dirs, files)
  \o npmCandidates(p, globalBin)
  \o lines

\* Set.prototype.add: insertion order, a value already present stays where
\* it is.
setAdd(q, x) == IF \E i \in 1..Len(q) : q[i] = x THEN q ELSE Append(q, x)

RECURSIVE setOf(_, _)
setOf(q, acc) ==
  IF q = << >> THEN acc ELSE setOf(Tail(q), setAdd(acc, Head(q)))

\* getNeuVersion, as far as the locator depends on it: a version string
\* when some probe invocation of the command exits with code 0, else null.
getNeuVersion(cmdPath, W) == IF cmdPath \in W THEN "detected" ELSE "null"

\* The loop over the candidate Set from position i: the index of the first
\* candidate whose probe succeeds, 0 when there is none.
RECURSIVE firstWorking_last(_, _, _)
firstWorking_last(cands, i, W) ==
  IF i > Len(cands) THEN 0
  ELSE LET later == firstWorking_last(cands, i + 1, W) IN
       IF later # 0 THEN later
       ELSE IF getNeuVersion(cands[i], W) # "null" THEN i ELSE 0

RECURSIVE firstWorking(_, _, _)
firstWorking(cands, i, W) ==
  IF i > Len(cands) THEN 0
  ELSE IF getNeuVersion(cands[i], W) # "null" THEN i
  ELSE firstWorking(cands, i + 1, W)

\* findNeutralinoCommand after the fast path: the candidate set is built
\* (Path scan on win32, `npm bin -g`, `where` / `which`) and iterated.
findSlow(v, p, neuBin, appData, dirs, files, globalBin, lines, W) ==
  LET cands == setOf(rawCandidates(v, p, neuBin, appData, dirs, files,
                                   globalBin, lines), << >>)
      k == firstWorking(cands, 1, W)
  IN [ result   |-> IF k = 0 THEN NullCmd
                    ELSE Cmd(cands[k], includesSpace(cands[k])),
       probed   |-> IF k = 0 THEN cands ELSE SubSeq(cands, 1, k),
       built    |-> 1,
       scans    |-> IF p = "win32" /\ dirs # << >> THEN 1 ELSE 0,
       npmCalls |-> 1,
       locCalls |-> 1 ]

\* findNeutralinoCommand
findNeutralinoCommand_noFastPath(v, p, neuBin, appData, dirs, files, globalBin, lines, W) ==
  findSlow(v, p, neuBin, appData, dirs, files, globalBin, lines, W)

findNeutralinoCommand(v, p, neuBin, appData, dirs, files, globalBin, lines, W) ==
  IF getNeuVersion(BareNeu, W) # "null"
  THEN [ result |-> Cmd(BareNeu, FALSE), probed |-> << BareNeu >>, built |-> 0,
         scans |-> 0, npmCalls |-> 0, locCalls |-> 0 ]
  ELSE LET r == findSlow(v, p, neuBin, appData, dirs, files, globalBin, lines, W)
       IN [ r EXCEPT !.probed = << BareNeu >> \o @ ]

\* resolveNeutralinoCommand: an install is run only when nothing was found
installNeeded_always(found) == TRUE

installNeeded(found) == found = NullCmd

(***************************************************************************)
(* Environment of the locator                                              *)
(***************************************************************************)
Platforms == { "win32", "linux" }

NeuBinValues == { NoPath, << "opt", "neu cli", "neu" >>, BareNeu }

AppDataValues(p) == IF p = "win32" THEN { NoPath, << "AppData" >> } ELSE { NoPath }

ToolsDir == << "C:", "tools" >>

NpmDir == << "AppData", "npm" >>

\* process.env.Path and the shims present in its directories
PathScenarios(p) ==
  IF p = "win32"
  THEN { [ dirs |-> << >>, files |-> {} ],
         [ dirs |-> << ToolsDir >>, files |-> { pathJoin(ToolsDir, "neu.ps1") } ],
         [ dirs |-> << ToolsDir, NoPath, NpmDir >>,
           files |-> { pathJoin(ToolsDir, "neu.exe"), pathJoin(NpmDir, "neu.cmd"),
                       pathJoin(NpmDir, "neu.ps1") } ] }
  ELSE { [ dirs |-> << >>, files |-> {} ] }

NpmBinValues(p) ==
  IF p = "win32" THEN { NoPath, NpmDir } ELSE { NoPath, << "usr", "local", "bin" >> }

LocatedValues(p) ==
  IF p = "win32"
  THEN { << >>, << pathJoin(NpmDir, "neu"), pathJoin(NpmDir, "neu.cmd") >> }
  ELSE { << >>, << << "usr", "local", "bin", "neu" >> >> }

SeqSet(q) == { q[i] : i \in 1..Len(q) }

\* every command the locator may probe in this environment
Universe(v, p, neuBin, appData, dirs, files, globalBin, lines) ==
  { BareNeu } \cup
  SeqSet(rawCandidates(v, p, neuBin, appData, dirs, files, globalBin, lines))

\* what a successful install may make work
SharedInstallEffects == { {}, { sharedNeuBin(platform, envAppData) } }

GlobalInstallEffects ==
  { {}, { BareNeu }, { << exeName(platform) >>, pathJoin(NpmDir, exeName(platform)) } }

\* outcomes of an install as runCommand sees them; the js edition sets no
\* timeout on its install
InstallOutcomes(v) ==
  IF v = "js" THEN { "exit0", "exitNonZero" } ELSE { "exit0", "exitNonZero", "timeout" }

\* The provisioner takes no part in this specification.
EnsureUnused ==
  /\ envDirect = "unset"
  /\ fs = [ d \in Dirs |-> AbsentDir ]
  /\ ePc = "idle"
  /\ eOutcome = "none"
  /\ LocalsInit
  /\ cacheAtStart = {}
  /\ nUpdate = 0
  /\ nMeta = 0
  /\ nDownload = 0
  /\ directStarted = FALSE
  /\ written = {}
  /\ removed = {}
  /\ prevOk = FALSE

InitLocate ==
  /\ variant \in Variants
  /\ platform \in Platforms
  /\ isBun \in (IF variant = "cjs" THEN BOOLEAN ELSE { FALSE })
  /\ envNeuBin \in NeuBinValues
  /\ envAppData \in AppDataValues(platform)
  /\ \E sc \in PathScenarios(platform) :
       /\ envPath = sc.dirs
       /\ pathFiles = sc.files
  /\ npmBin \in NpmBinValues(platform)
  /\ located \in LocatedValues(platform)
  /\ working \in { W \in SUBSET Universe(variant, platform, envNeuBin, envAppData,
                                       envPath, pathFiles, npmBin, located) :
                     Cardinality(W) <= MaxWorking }
  /\ rPc = "idle"
  /\ rResult = NullCmd
  /\ rOutcome = "none"
  /\ mainPhase = "resolve"
  /\ workingAtStart = working
  /\ findCalls = 0
  /\ firstFound = NullCmd
  /\ lastFound = NullCmd
  /\ probes = << >>
  /\ setsBuilt = 0
  /\ pathScans = 0
  /\ npmBinCalls = 0
  /\ locatorCalls = 0
  /\ installs = << >>
  /\ sharedFailed = FALSE
  /\ EnsureUnused
  /\ RunUnused
  /\ FetchUnused
  /\ MainUnused
  /\ FlattenUnused
  /\ ProbeUnused
  /\ TagReqUnused
  /\ PromptUnused
  /\ ConcUnused
  /\ MoveUnused

(***************************************************************************)
(* resolveNeutralinoCommand                                                *)
(***************************************************************************)
\* one call of findNeutralinoCommand in the environment with W working
Find(W) ==
  findNeutralinoCommand(variant, platform, envNeuBin, envAppData, envPath,
                        pathFiles, npmBin, located, W)

\* the bookkeeping of a call of findNeutralinoCommand that returned r
Recorded(r) ==
  /\ findCalls' = findCalls + 1
  /\ firstFound' = IF findCalls = 0 THEN r.result ELSE firstFound
  /\ lastFound' = r.result
  /\ probes' = r.probed
  /\ setsBuilt' = setsBuilt + r.built
  /\ pathScans' = pathScans + r.scans
  /\ npmBinCalls' = npmBinCalls + r.npmCalls
  /\ locatorCalls' = locatorCalls + r.locCalls

\* resolveNeutralinoCommand up to its return or its first await.
ResolveStart ==
  /\ rPc = "idle"
  /\ LET r == Find(working) IN
     /\ Recorded(r)
     /\ IF ~installNeeded(r.result)
        THEN /\ rPc' = "returned"
             /\ rResult' = r.result
             /\ rOutcome' = "ok"
             /\ UNCHANGED installs
        ELSE IF variant = "cjs" /\ isBun
        THEN /\ rPc' = "returned"
             /\ rResult' = Cmd(BunX, FALSE)
             /\ rOutcome' = "ok"
             /\ UNCHANGED installs
        ELSE IF variant = "cjs"
        THEN /\ rPc' = "sharedInstall"
             /\ installs' = Append(installs, "shared")
             /\ UNCHANGED << rResult, rOutcome >>
        ELSE /\ rPc' = "globalInstall"
             /\ installs' = Append(installs, "global")
             /\ UNCHANGED << rResult, rOutcome >>
  /\ UNCHANGED << locEnvVars, working, mainPhase, workingAtStart, sharedFailed >>
  /\ UNCHANGED outsideLocate

\* the second findNeutralinoCommand, after an install that succeeded
FindAgain(W) ==
  LET r == Find(W) IN
  /\ Recorded(r)
  /\ IF r.result # NullCmd
     THEN /\ rPc' = "returned"
          /\ rResult' = r.result
          /\ rOutcome' = "ok"
     ELSE /\ rPc' = "threw"
          /\ rResult' = rResult
          /\ rOutcome' = "CliMissingAfterInstall"

\* `npm install --prefix <shared>` has ended (cjs): a rejection is caught
\* and the global install is started.
SharedInstallDone ==
  /\ rPc = "sharedInstall"
  /\ \E o \in InstallOutcomes(variant), S \in SharedInstallEffects :
       IF runCommandSettles(o) = "resolve"
       THEN /\ working' = working \cup S
            /\ FindAgain(working \cup S)
            /\ UNCHANGED << installs, sharedFailed >>
       ELSE /\ S = {}
            /\ sharedFailed' = TRUE
            /\ installs' = Append(installs, "global")
            /\ rPc' = "globalInstall"
            /\ UNCHANGED << working, rResult, rOutcome, findCalls, firstFound,
                            lastFound, probes, setsBuilt, pathScans,
                            npmBinCalls, locatorCalls >>
  /\ UNCHANGED << locEnvVars, mainPhase, workingAtStart >>
  /\ UNCHANGED outsideLocate

\* `npm install -g` has ended: its rejection is not caught.
GlobalInstallDone ==
  /\ rPc = "globalInstall"
  /\ \E o \in InstallOutcomes(variant), S \in GlobalInstallEffects :
       IF runCommandSettles(o) = "resolve"
       THEN /\ working' = working \cup S
            /\ FindAgain(working \cup S)
       ELSE /\ S = {}
            /\ rPc' = "threw"
            /\ rOutcome' = IF o = "timeout" THEN "CommandTimedOut" ELSE "CommandFailed"
            /\ UNCHANGED << working, rResult, findCalls, firstFound, lastFound,
                            probes, setsBuilt, pathScans, npmBinCalls,
                            locatorCalls >>
  /\ UNCHANGED << locEnvVars, mainPhase, workingAtStart, installs, sharedFailed >>
  /\ UNCHANGED outsideLocate

\* The main flow after `await resolveNeutralinoCommand()`: provisioning
\* follows a return; a throw ends the run.
MainContinue ==
  /\ mainPhase = "resolve"
  /\ rPc \in { "returned", "threw" }
  /\ mainPhase' = IF rPc = "returned" THEN "provision" ELSE "failed"
  /\ UNCHANGED << locEnvVars, working, rPc, rResult, rOutcome, locHistVars >>
  /\ UNCHANGED outsideLocate

NextLocate ==
  \/ ResolveStart
  \/ SharedInstallDone
  \/ GlobalInstallDone
  \/ MainContinue

SpecLocate == InitLocate /\ [][NextLocate]_vars

(***************************************************************************)
(* Properties of the locator                                               *)
(***************************************************************************)
\* the locator's priority order: the bare command of the fast path, then
\* every candidate in the order it is added, duplicates included
PriorityOrder ==
  << BareNeu >> \o
  rawCandidates(variant, platform, envNeuBin, envAppData, envPath, pathFiles,
                npmBin, located)

\* C7: findNeutralinoCommand returns the first command of the priority
\* order whose probe succeeds (quoted when it holds a space), at its first
\* position, and null exactly when no command of the order probes
\* successfully.
C7_FirstWorkingCandidate ==
  findCalls >= 1 =>
    IF lastFound = NullCmd
    THEN \A i \in 1..Len(PriorityOrder) : PriorityOrder[i] \notin working
    ELSE /\ \E i \in 1..Len(PriorityOrder) :
              /\ PriorityOrder[i] = lastFound.cmd
              /\ PriorityOrder[i] \in working
              /\ \A j \in 1..(i - 1) : PriorityOrder[j] \notin working
         /\ lastFound.quoted = includesSpace(lastFound.cmd)

\* two candidates probe successfully, one of them listed twice, and the
\* earlier one was returned
C7_Witness ==
  /\ findCalls = 1
  /\ lastFound # NullCmd
  /\ lastFound.cmd # BareNeu
  /\ \E i, j \in 1..Len(PriorityOrder) :
       /\ i < j
       /\ PriorityOrder[i] = lastFound.cmd
       /\ PriorityOrder[j] \in working
       /\ PriorityOrder[j] # lastFound.cmd
  /\ \E i, j \in 1..Len(PriorityOrder) :
       i < j /\ PriorityOrder[i] = PriorityOrder[j] /\ PriorityOrder[i] \in working

\* C8: when the probe of the bare command `neu` succeeds, `neu` is
\* returned after that one probe: no candidate set is built, no Path
\* directory scanned, `npm bin -g` and the OS locator are not invoked, and
\* no install is run.
C8_FastPath ==
  (BareNeu \in workingAtStart /\ rPc # "idle") =>
    /\ rPc = "returned"
    /\ rResult = Cmd(BareNeu, FALSE)
    /\ probes = << BareNeu >>
    /\ findCalls = 1
    /\ setsBuilt = 0
    /\ pathScans = 0
    /\ npmBinCalls = 0
    /\ locatorCalls = 0
    /\ installs = << >>

\* the fast path taken although other candidates work as well
C8_Witness ==
  /\ BareNeu \in workingAtStart
  /\ rPc = "returned"
  /\ Cardinality(workingAtStart) = MaxWorking
  /\ platform = "win32"
  /\ envPath # << >>
  /\ npmBin # NoPath

\* C9 (as claimed): whenever NEU_BIN names a command whose probe
\* succeeds, findNeutralinoCommand returns that override.
C9_OverrideAlwaysWins ==
  (findCalls >= 1 /\ envNeuBin # NoPath /\ envNeuBin \in working) =>
    lastFound.cmd = envNeuBin

\* C9 (amended): whenever NEU_BIN names a command whose probe succeeds
\* and the probe of the bare `neu` fails, findNeutralinoCommand returns the
\* override, whatever else probes successfully.
C9_OverrideWinsAfterFastPath ==
  (findCalls >= 1 /\ envNeuBin # NoPath /\ envNeuBin \in working
     /\ BareNeu \notin working) =>
    lastFound = Cmd(envNeuBin, includesSpace(envNeuBin))

\* the override returned although the project-local install works too
C9_Witness ==
  /\ findCalls = 1
  /\ envNeuBin # NoPath
  /\ envNeuBin \in working
  /\ localNeu(platform) \in working
  /\ lastFound.cmd = envNeuBin

C25_ReturnedCommandWasProbed ==
  rPc = "returned" =>
     /\ \E i \in 1..Len(probes) : probes[i] = rResult.cmd
     /\ rResult.cmd \in working

(***************************************************************************)
(* Subprocess runner: runCommand                                           *)
(***************************************************************************)
\* the capture threshold of the data handlers
CaptureLimit == 8000

\* data events of one session
MaxChunks == 3

\* the lengths an output chunk may have
ChunkSizes == { 3000, 9000 }

\* the texts an output chunk may carry, as token sequences
ChunkTexts ==
  { << "Building", "app" >>,
    << "Press", "any", "key" >>,
    << "key", "press" >>,
    << "Overwrite?", "y/n" >>,
    << "INFO", "CONFIRM", "overwrite" >>,
    << "neu:", "y/n" >> }

\* the exit code handed to finalize when the child ended by a signal (null)
NullCode == 256

\* the codes the 'exit' event may carry
ExitCodes == { 0, 1, NullCode }

\* the code the 'close' event carries after a failed spawn (a negative errno)
SpawnErrno == 0 - 2

TimeoutValues == { "null", "120000" }
StdinDataValues == { "null", "y\n" }

\* the /i flag of the prompt patterns
toLowerCase(t) ==
  CASE t = "Press" -> "press"
    [] t = "CONFIRM" -> "confirm"
    [] OTHER -> t

\* /\bpress\b.*key/i
matchesPressKey(text) ==
  \E i, j \in 1..Len(text) :
    /\ i < j
    /\ toLowerCase(text[i]) = "press"
    /\ toLowerCase(text[j]) = "key"

\* /\by\/n\b/i
matchesYN(text) == \E i \in 1..Len(text) : toLowerCase(text[i]) = "y/n"

\* /confirm/i
matchesConfirm(text) == \E i \in 1..Len(text) : toLowerCase(text[i]) = "confirm"

isPrompt(text) == matchesPressKey(text) \/ matchesYN(text) \/ matchesConfirm(text)

\* the "noisy art/log lines" test of the js stdout handler (case-sensitive)
isNoise(text) ==
  \/ (Len(text) > 0 /\ text[1] \in { "neu:", "_   _" })
  \/ \E i \in 1..Len(text) : text[i] \in { "INFO", "WARN", "Extracting", "patching" }

\* whether a data handler reaches sendInput("y\n") for a chunk
autoConfirms(v, stream, text) ==
  /\ stream = "stdout"
  /\ ~(v = "js" /\ isNoise(text))
  /\ isPrompt(text)

\* sendInput: the number of writes it makes
sendInput(closed, writable) == IF closed \/ ~writable THEN 0 ELSE 1

\* if (captured.length < 8000) captured += text
capture(captured, len) ==
  IF captured < CaptureLimit THEN captured + len ELSE captured

\* timeoutMs && Number.isFinite(timeoutMs)
timerConfigured(t) == t # "null"

clearTimeout_noop(t) == t

\* if (timer) clearTimeout(timer)
clearTimeout(t) == IF t = "armed" THEN "cleared" ELSE t

\* capturedStdout || capturedStderr
bodyOf(out, err) ==
  IF out # 0 THEN [ from |-> "stdout", len |-> out ]
             ELSE [ from |-> "stderr", len |-> err ]

PendingPromise ==
  [ state |-> "pending", kind |-> "none", hasCode |-> FALSE, code |-> 0,
    body |-> bodyOf(0, 0) ]

\* finalize: how it settles the promise and what it warns
finalizeOutcome(to, af, code, out, err) ==
  IF to /\ ~af
  THEN [ promise |-> [ state |-> "rejected", kind |-> "CommandTimedOut",
                       hasCode |-> FALSE, code |-> code,
                       body |-> bodyOf(out, err) ],
         warnings |-> {} ]
  ELSE IF code = 0 \/ af
  THEN [ promise |-> [ state |-> "resolved", kind |-> "ok", hasCode |-> TRUE,
                       code |-> code, body |-> bodyOf(out, err) ],
         warnings |-> (IF code # 0 THEN { "CommandFailed" } ELSE {})
                      \cup (IF to THEN { "CommandTimedOut" } ELSE {}) ]
  ELSE [ promise |-> [ state |-> "rejected", kind |-> "CommandFailed",
                       hasCode |-> (bodyOf(out, err).len # 0),
                       code |-> code, body |-> bodyOf(out, err) ],
         warnings |-> {} ]

settle_lastWins(p, q) == q

\* resolve / reject: only the first call settles the promise
settle(p, q) == IF p.state = "pending" THEN q ELSE p

\* The state when the executor of the promise has run: the child is
\* spawned, the initial input sent, the timer armed.
InitRun ==
  /\ variant \in Variants
  /\ allowFail \in BOOLEAN
  /\ timeoutMs \in TimeoutValues
  /\ stdinData \in StdinDataValues
  /\ stdinWritable \in BOOLEAN
  /\ capturedStdout = 0
  /\ capturedStderr = 0
  /\ stdinClosed = FALSE
  /\ timedOut = FALSE
  /\ finished = FALSE
  /\ timer = IF timerConfigured(timeoutMs) THEN "armed" ELSE "null"
  /\ stdinEnded = FALSE
  /\ stdinWrites = IF stdinData # "null" THEN sendInput(FALSE, stdinWritable) ELSE 0
  /\ child = "running"
  /\ kills = 0
  /\ promise = PendingPromise
  /\ warnings = {}
  /\ crashed = FALSE
  /\ atSettle = [ stdinEnded |-> FALSE, timer |-> "null" ]
  /\ nChunks = 0
  /\ lastChunk = [ stream |-> "none", text |-> << >> ]
  /\ lastWrote = 0
  /\ EnsureUnused
  /\ LocateUnused
  /\ FetchUnused
  /\ MainUnused
  /\ FlattenUnused
  /\ ProbeUnused
  /\ TagReqUnused
  /\ PromptUnused
  /\ ConcUnused
  /\ MoveUnused

\* p.stdout.on("data", ...)
StdoutData ==
  /\ child \in { "running", "exited" }
  /\ ~crashed
  /\ nChunks < MaxChunks
  /\ \E text \in ChunkTexts, len \in ChunkSizes :
       LET w == IF autoConfirms(variant, "stdout", text)
                THEN sendInput(stdinClosed, stdinWritable) ELSE 0
       IN /\ capturedStdout' = capture(capturedStdout, len)
          /\ stdinWrites' = stdinWrites + w
          /\ lastWrote' = w
          /\ lastChunk' = [ stream |-> "stdout", text |-> text ]
  /\ nChunks' = nChunks + 1
  /\ UNCHANGED << runOptVars, capturedStderr, stdinClosed, timedOut, finished,
                  timer, stdinWritable, stdinEnded, child, kills, promise,
                  warnings, crashed, atSettle >>
  /\ UNCHANGED outsideRun

\* p.stderr.on("data", ...)
StderrData ==
  /\ child \in { "running", "exited" }
  /\ ~crashed
  /\ nChunks < MaxChunks
  /\ \E text \in ChunkTexts, len \in ChunkSizes :
       LET w == IF autoConfirms(variant, "stderr", text)
                THEN sendInput(stdinClosed, stdinWritable) ELSE 0
       IN /\ capturedStderr' = capture(capturedStderr, len)
          /\ stdinWrites' = stdinWrites + w
          /\ lastWrote' = w
          /\ lastChunk' = [ stream |-> "stderr", text |-> text ]
  /\ nChunks' = nChunks + 1
  /\ UNCHANGED << runOptVars, capturedStdout, stdinClosed, timedOut, finished,
                  timer, stdinWritable, stdinEnded, child, kills, promise,
                  warnings, crashed, atSettle >>
  /\ UNCHANGED outsideRun

\* the setTimeout callback
TimerFires ==
  /\ timer = "armed"
  /\ ~crashed
  /\ timer' = "fired"
  /\ timedOut' = TRUE
  /\ kills' = kills + 1
  /\ UNCHANGED << runOptVars, capturedStdout, capturedStderr, stdinClosed,
                  finished, stdinWritable, stdinEnded, stdinWrites, child,
                  promise, warnings, crashed, runHistVars >>
  /\ UNCHANGED outsideRun

\* finalize(code)
finalize(code) ==
  IF finished
  THEN UNCHANGED << finished, timer, stdinEnded, stdinWritable, stdinClosed,
                    promise, warnings, atSettle >>
  ELSE LET o == finalizeOutcome(timedOut, allowFail, code,
                                capturedStdout, capturedStderr)
       IN /\ finished' = TRUE
          /\ timer' = clearTimeout(timer)
          /\ stdinEnded' = TRUE
          /\ stdinWritable' = FALSE
          /\ stdinClosed' = TRUE
          /\ promise' = settle(promise, o.promise)
          /\ warnings' = warnings \cup o.warnings
          /\ atSettle' = IF promise.state = "pending"
                         THEN [ stdinEnded |-> TRUE, timer |-> clearTimeout(timer) ]
                         ELSE atSettle

\* p.on("exit", finalize)
ChildExit ==
  /\ child = "running"
  /\ ~crashed
  /\ \E code \in ExitCodes : finalize(code)
  /\ child' = "exited"
  /\ UNCHANGED << runOptVars, capturedStdout, capturedStderr, timedOut,
                  stdinWrites, kills, crashed, nChunks, lastChunk, lastWrote >>
  /\ UNCHANGED outsideRun

\* p.on("close", finalize)
ChildClose ==
  /\ child \in { "exited", "failed" }
  /\ ~crashed
  /\ \E code \in (IF child = "failed" THEN { SpawnErrno } ELSE ExitCodes) :
       finalize(code)
  /\ child' = "closed"
  /\ UNCHANGED << runOptVars, capturedStdout, capturedStderr, timedOut,
                  stdinWrites, kills, crashed, nChunks, lastChunk, lastWrote >>
  /\ UNCHANGED outsideRun

\* The child's 'error' event (the spawn failed).  The cjs edition listens
\* and rejects; the js edition has no listener, so the event is thrown as
\* an uncaught exception.
ChildError ==
  /\ child = "running"
  /\ ~crashed
  /\ nChunks = 0
  /\ child' = "failed"
  /\ IF variant = "cjs"
     THEN /\ promise' = settle(promise,
                 [ state |-> "rejected", kind |-> "SpawnError",
                   hasCode |-> FALSE, code |-> SpawnErrno,
                   body |-> bodyOf(0, 0) ])
          /\ atSettle' = IF promise.state = "pending"
                         THEN [ stdinEnded |-> stdinEnded, timer |-> timer ]
                         ELSE atSettle
          /\ UNCHANGED crashed
     ELSE /\ crashed' = TRUE
          /\ UNCHANGED << promise, atSettle >>
  /\ UNCHANGED << runOptVars, capturedStdout, capturedStderr, stdinClosed,
                  timedOut, finished, timer, stdinWritable, stdinEnded,
                  stdinWrites, kills, warnings, nChunks, lastChunk, lastWrote >>
  /\ UNCHANGED outsideRun

NextRun ==
  \/ StdoutData
  \/ StderrData
  \/ TimerFires
  \/ ChildExit
  \/ ChildClose
  \/ ChildError

SpecRun == InitRun /\ [][NextRun]_vars

(***************************************************************************)
(* Properties of the subprocess runner                                     *)
(***************************************************************************)
\* finalize settled the promise (not the 'error' listener)
SettledByFinalize == promise.state # "pending" /\ promise.kind # "SpawnError"

\* C11: in every reachable state of a session the captured stdout text and
\* the captured stderr text each hold at most 8000 characters, whatever the
\* number and the sizes of the chunks.
C11_CaptureBounded ==
  /\ capturedStdout <= CaptureLimit
  /\ capturedStderr <= CaptureLimit

\* C12: a child that ends without timing out is classified so: code 0
\* resolves with the captured output; a non-zero code with allowFail unset
\* rejects with a "Command failed" error that carries the exit code and the
\* captured output; a non-zero code with allowFail set resolves with that
\* code after a warning.
C12_ExitClassification ==
  (SettledByFinalize /\ ~timedOut) =>
     /\ promise.code = 0 =>
          (promise.state = "resolved" /\ warnings = {})
     /\ (promise.code # 0 /\ ~allowFail) =>
          /\ promise.state = "rejected"
          /\ promise.kind = "CommandFailed"
          /\ promise.hasCode
     /\ (promise.code # 0 /\ allowFail) =>
          /\ promise.state = "resolved"
          /\ promise.hasCode
          /\ warnings = { "CommandFailed" }

\* C13: when the timer fires the child is killed, and the finalize that
\* follows ends the session as a timeout: with allowFail unset the promise
\* rejects with "Command timed out" carrying the captured output, with
\* allowFail set it resolves after the timeout warning.  When the child
\* exits before the timer fires, the timer is cancelled, the child is never
\* killed and no timeout is reported.
C13_TimeoutKillsAndReports ==
  /\ [][ (timer = "armed" /\ timer' = "fired") =>
           (kills' = kills + 1 /\ timedOut') ]_vars
  /\ [][ (~finished /\ finished' /\ timedOut /\ promise.state = "pending") =>
           IF allowFail
           THEN /\ promise'.state = "resolved"
                /\ "CommandTimedOut" \in warnings'
           ELSE /\ promise'.state = "rejected"
                /\ promise'.kind = "CommandTimedOut"
                /\ promise'.body = bodyOf(capturedStdout, capturedStderr) ]_vars
  /\ [] ( (finished /\ ~timedOut) =>
            /\ timer \in { "null", "cleared" }
            /\ kills = 0
            /\ promise.kind # "CommandTimedOut"
            /\ "CommandTimedOut" \notin warnings )

\* the timer fired on a running child that had produced output; the child
\* was killed and the promise rejected as a timeout
C13_Witness ==
  /\ finished
  /\ timedOut
  /\ kills = 1
  /\ ~allowFail
  /\ promise.kind = "CommandTimedOut"
  /\ promise.body.len > 0

\* C14: on every path by which the promise settles (exit, timeout kill, the
\* child's 'error' event) stdin.end() has been called and the timer is no
\* longer armed when the promise resolves or rejects.
C14_CleanupBeforeSettle ==
  promise.state # "pending" =>
     (atSettle.stdinEnded /\ atSettle.timer # "armed")

\* C15: every chunk, on stdout or on stderr, that matches a prompt pattern
\* while the session is open makes runCommand write "y\n" to the child's
\* input once, also when the chunk holds log noise.
C15_PromptAnswered ==
  [][ (nChunks' = nChunks + 1 /\ isPrompt(lastChunk'.text)
         /\ ~stdinClosed /\ stdinWritable) =>
        (lastWrote' = 1 /\ stdinWrites' = stdinWrites + 1) ]_vars

\* C36: a session whose child ended by itself with exit code 0 (the code
\* finalize received is 0) is resolved, and no warning tells that it failed
\* or timed out, wherever the timer callback falls among the events.
C36_ZeroExitResolves ==
  (SettledByFinalize /\ promise.code = 0) =>
    /\ promise.state = "resolved"
    /\ warnings = {}

\* What holds: an exit with code 0 resolves without a warning when the
\* timer callback has not run before the 'exit' event.
C36_ZeroExitResolvesUnlessTimerRan ==
  (SettledByFinalize /\ promise.code = 0 /\ ~timedOut) =>
    /\ promise.state = "resolved"
    /\ promise.kind = "ok"
    /\ warnings = {}

\* C37: the output the outcome carries is all that was captured from the
\* child, the chunks delivered after 'exit' included.
C37_OutcomeCarriesEveryChunk ==
  SettledByFinalize =>
    promise.body = bodyOf(capturedStdout, capturedStderr)

\* What holds: the outcome carries what was captured up to the first call of
\* finalize.
C37_OutcomeCarriesChunksBeforeFinalize ==
  [][ (promise.state = "pending" /\ promise'.state # "pending"
         /\ promise'.kind # "SpawnError") =>
        promise'.body = bodyOf(capturedStdout, capturedStderr) ]_vars

\* C38: finalize acts once.  The first call sets `finished` for good; a
\* settled promise never changes; warnings are emitted by the first call
\* only; once the child has exited the promise is settled; and after the
\* first call nothing is written to the child's input, whatever arrives.
C38_FinalizedOnce ==
  /\ [](child \in { "exited", "closed" } => (finished /\ promise.state # "pending"))
  /\ [](finished => (stdinClosed /\ stdinEnded))
  /\ [][finished => finished']_vars
  /\ [][promise.state # "pending" => promise' = promise]_vars
  /\ [][warnings' # warnings => (~finished /\ finished')]_vars
  /\ [][finished => stdinWrites' = stdinWrites]_vars

\* 'exit' settled the promise with no output captured, a prompt arrived on
\* stdout before 'close' and was not answered, and 'close' changed nothing
C38_Witness ==
  /\ child = "closed"
  /\ finished
  /\ promise.state = "resolved"
  /\ nChunks > 0
  /\ lastChunk.stream = "stdout"
  /\ isPrompt(lastChunk.text)
  /\ lastWrote = 0
  /\ stdinWrites = 0
  /\ stdinData = "null"
  /\ promise.body.len = 0
  /\ capturedStdout > 0

(***************************************************************************)
(* Network fetcher: downloadWithRedirect                                   *)
(***************************************************************************)
maxRedirects == 5

\* [301, 302, 303, 307, 308]
RedirectStatuses == { 301, 302, 303, 307, 308 }

\* A URL is << scheme, host, path >>; a relative Location is << path >>.
ReleaseUrl == << "https", "github.com", "/neutralinojs.zip" >>

NoLocation == << >>

\* the Location headers a response may carry
Locations ==
  { NoLocation,
    << "https", "objects.githubusercontent.com", "/neutralinojs.zip" >>,
    << "http", "mirror", "/neutralinojs.zip" >>,
    << "/latest.zip" >> }

\* the responses a request may receive
Responses ==
  [ status : { 302, 307 }, location : Locations \ { NoLocation } ]
    \cup { [ status |-> 301, location |-> NoLocation ],
           [ status |-> 200, location |-> NoLocation ],
           [ status |-> 404, location |-> NoLocation ] }

\* isRedirect && res.headers.location
isRedirect(res) ==
  res.status \in RedirectStatuses /\ res.location # NoLocation

\* location.startsWith("http") ? location : new URL(location, url).toString()
resolveLocation(location, base) ==
  IF location[1] \in { "http", "https" } THEN location
  ELSE << base[1], base[2], location[1] >>

unexpectedStatus_serverErrorsOnly(res) == res.status >= 500

\* res.statusCode !== 200
unexpectedStatus(res) == res.status # 200

\* fs.createWriteStream(destPath): the file is created or truncated
createWriteStream(f) == "new"

tooManyRedirects_offByOne(count) == count > maxRedirects

\* redirectCount >= maxRedirects
tooManyRedirects(count) == count >= maxRedirects

\* downloadWithRedirect(url, zipPath): the first request is out
InitFetch ==
  /\ variant \in Variants
  /\ url = ReleaseUrl
  /\ redirectCount = 0
  /\ requests = 1
  /\ responses = << >>
  /\ dlState = "request"
  /\ dlError = "none"
  /\ destFile \in { "absent", "old" }
  /\ EnsureUnused
  /\ LocateUnused
  /\ RunUnused
  /\ MainUnused
  /\ FlattenUnused
  /\ ProbeUnused
  /\ TagReqUnused
  /\ PromptUnused
  /\ ConcUnused
  /\ MoveUnused

\* the response callback of client.get
OnResponse ==
  /\ dlState = "request"
  /\ \E res \in Responses :
       /\ responses' = Append(responses, res)
       /\ IF isRedirect(res)
          THEN IF tooManyRedirects(redirectCount)
               THEN /\ dlState' = "rejected"
                    /\ dlError' = "TooManyRedirects"
                    /\ UNCHANGED << url, redirectCount, requests, destFile >>
               ELSE /\ url' = resolveLocation(res.location, url)
                    /\ redirectCount' = redirectCount + 1
                    /\ requests' = requests + 1
                    /\ UNCHANGED << dlState, dlError, destFile >>
          ELSE IF unexpectedStatus(res)
          THEN /\ dlState' = "rejected"
               /\ dlError' = "UnexpectedStatus"
               /\ UNCHANGED << url, redirectCount, requests, destFile >>
          ELSE /\ dlState' = "piping"
               /\ destFile' = createWriteStream(destFile)
               /\ UNCHANGED << url, redirectCount, requests, dlError >>
  /\ UNCHANGED outsideFetch

\* req.on("error", reject), with the request timeout destroying the request
OnRequestError ==
  /\ dlState = "request"
  /\ \E e \in { "RequestError", "DownloadTimeout" } : dlError' = e
  /\ dlState' = "rejected"
  /\ UNCHANGED << url, redirectCount, requests, responses, destFile >>
  /\ UNCHANGED outsideFetch

\* file.on("finish", () => file.close(resolve))
OnFinish ==
  /\ dlState = "piping"
  /\ dlState' = "resolved"
  /\ UNCHANGED << url, redirectCount, requests, responses, dlError,
                  destFile >>
  /\ UNCHANGED outsideFetch

\* res.on("error", reject); file.on("error", reject)
OnStreamError ==
  /\ dlState = "piping"
  /\ dlState' = "rejected"
  /\ dlError' = "StreamError"
  /\ UNCHANGED << url, redirectCount, requests, responses, destFile >>
  /\ UNCHANGED outsideFetch

NextFetch ==
  \/ OnResponse
  \/ OnRequestError
  \/ OnFinish
  \/ OnStreamError

SpecFetch == InitFetch /\ [][NextFetch]_vars

\* the number of leading redirect responses of the chain received
RECURSIVE redirectsIn(_)
redirectsIn(rs) ==
  IF rs = << >> THEN 0
  ELSE (IF isRedirect(Head(rs)) THEN 1 ELSE 0) + redirectsIn(Tail(rs))

\* C16: at most 5 redirects are followed: k <= 5 redirect responses and
\* then a 200 are accepted, the 6th redirect response rejects with "Too
\* many redirects" and is not followed, no download issues more than 6
\* requests.
C16_AtMostFiveRedirects ==
  /\ requests <= maxRedirects + 1
  /\ requests = redirectCount + 1
  /\ redirectCount <= maxRedirects
  /\ (redirectsIn(responses) <= maxRedirects) => dlError # "TooManyRedirects"
  /\ (redirectsIn(responses) > maxRedirects) =>
        /\ dlState = "rejected"
        /\ dlError = "TooManyRedirects"
        /\ requests = maxRedirects + 1
        /\ Len(responses) = maxRedirects + 1
  /\ (responses # << >> /\ responses[Len(responses)].status = 200) =>
        /\ dlState \in { "piping", "resolved" } \/ dlError = "StreamError"
        /\ redirectsIn(responses) <= maxRedirects

\* six redirect responses in a row: the sixth is refused
C16_Witness ==
  /\ redirectsIn(responses) = maxRedirects + 1
  /\ dlError = "TooManyRedirects"
  /\ requests = maxRedirects + 1

LastResponse == responses[Len(responses)]

BinaryNames == { << "web", "app" >>, << "my", "-", "site" >> }

\* A directory entry: its name and whether it is a regular file.
Entry(name, isFile) == [ name |-> name, isFile |-> isFile ]

ExeEntry(b) == Entry(b \o << "-linux_x64" >>, TRUE)
ZipEntry(b) == Entry(b \o << "-release.zip" >>, TRUE)
ResEntry == Entry(<< "resources", ".neu" >>, TRUE)
SubdirEntry(b) == Entry(b, FALSE)

NoOutDir == [ exists |-> FALSE, entries |-> {} ]

\* what `neu build` may leave at <appDir>/<binaryName>
OutDirContents(b) ==
  { NoOutDir } \cup
  { [ exists |-> TRUE, entries |-> E ] :
      E \in { {}, { ResEntry }, { SubdirEntry(b) }, { ExeEntry(b), ResEntry },
              { ZipEntry(b) }, { ExeEntry(b), ZipEntry(b), ResEntry } } }

\* outcomes of `neu build` as runCommand sees them (no timeout is set)
BuildOutcomes == { "exit0", "exitNonZero" }

\* String.prototype.startsWith
startsWith(name, prefix) ==
  /\ Len(name) >= Len(prefix)
  /\ SubSeq(name, 1, Len(prefix)) = prefix

\* String.prototype.endsWith
endsWith(name, suffix) ==
  /\ Len(name) >= Len(suffix)
  /\ SubSeq(name, Len(name) - Len(suffix) + 1, Len(name)) = suffix

\* entry.name.endsWith("-release.zip")
isArchive(e) == endsWith(e.name, << "-release.zip" >>)

\* entry.name.startsWith(binaryName) && entry.name !== "resources.neu"
isExecutable(e, b) == startsWith(e.name, b) /\ e.name # << "resources", ".neu" >>

listExecutables_zipFirstDropped(dir, b) ==
  IF ~dir.exists THEN [ executables |-> {}, archives |-> {} ]
  ELSE [ archives |-> { e \in dir.entries : e.isFile /\ isArchive(e) },
         executables |-> { e \in dir.entries : e.isFile /\ isExecutable(e, b) } ]

\* The loop skips what is not a file; an archive is pushed and the loop
\* continues, so the executable test is made on the other files only.
listExecutables(dir, b) ==
  IF ~dir.exists THEN [ executables |-> {}, archives |-> {} ]
  ELSE [ archives |-> { e \in dir.entries : e.isFile /\ isArchive(e) },
         executables |-> { e \in dir.entries :
                             e.isFile /\ ~isArchive(e) /\ isExecutable(e, b) } ]

\* if (!executables.length && !archives.length) throw ... (cjs edition only)
noOutputsError(v, r) ==
  v = "cjs" /\ r.executables = {} /\ r.archives = {}

\* the cleanup targets, in the order of the loop
CleanupTargets == << "releaseZip", "resources", "bin" >>

\* what console.error(`! ${err.message}`) prints: the message of a
\* runCommand error holds the captured output after a line break
MessageShapes(err) ==
  IF err \in { "CommandFailed", "CommandTimedOut" }
  THEN { "oneLine", "multiLine" }
  ELSE { "oneLine" }

provisionOk_any(pc) == TRUE

\* `await ensureNeutralinoBinaries(...)` returned (did not throw)
provisionOk(pc) == pc = "returned"

InitMain ==
  /\ variant \in Variants
  /\ platform = "linux"
  /\ isBun \in (IF variant = "cjs" THEN BOOLEAN ELSE { FALSE })
  /\ envNeuBin = NoPath
  /\ envAppData = NoPath
  /\ envPath = << >>
  /\ pathFiles = {}
  /\ npmBin = NoPath
  /\ located = << >>
  /\ working \in { {}, { BareNeu } }
  /\ rPc = "idle"
  /\ rResult = NullCmd
  /\ rOutcome = "none"
  /\ mainPhase = "input"
  /\ workingAtStart = working
  /\ findCalls = 0
  /\ firstFound = NullCmd
  /\ lastFound = NullCmd
  /\ probes = << >>
  /\ setsBuilt = 0
  /\ pathScans = 0
  /\ npmBinCalls = 0
  /\ locatorCalls = 0
  /\ installs = << >>
  /\ sharedFailed = FALSE
  /\ envDirect \in { "unset", "1" }
  /\ \E c \in { AbsentDir,
               [ exists |-> TRUE, files |-> NeuBinarySet ],
               [ exists |-> TRUE, files |-> NeuBinarySet \ { NEU_BINARIES[7] } ] } :
       fs = [ d \in Dirs |-> IF d = CacheDir(variant) THEN c ELSE AbsentDir ]
  /\ ePc = "idle"
  /\ eOutcome = "none"
  /\ LocalsInit
  /\ cacheAtStart = fs[CacheDir(variant)].files
  /\ nUpdate = 0
  /\ nMeta = 0
  /\ nDownload = 0
  /\ directStarted = FALSE
  /\ written = {}
  /\ removed = {}
  /\ prevOk = FALSE
  /\ appDir = [ resources |-> FALSE, releaseZip |-> FALSE, outDir |-> NoOutDir ]
  /\ builds = 0
  /\ binAtBuild = {}
  /\ buildOutcome = "none"
  /\ mainError = "none"
  /\ cleanupRan = FALSE
  /\ cleanupWarned = {}
  /\ exitCode = "none"
  /\ binaryName \in BinaryNames
  /\ listed = [ executables |-> {}, archives |-> {} ]
  /\ listCalls = 0
  /\ diagnostic = "none"
  /\ RunUnused
  /\ FetchUnused
  /\ FlattenUnused
  /\ ProbeUnused
  /\ TagReqUnused
  /\ PromptUnused
  /\ ConcUnused
  /\ MoveUnused

\* The input has been read (arguments in the js edition, the prompts in
\* the cjs edition).  A valid URL is followed by the scaffold; without one
\* the js edition prints the usage line and exits, the cjs edition throws.
MainStart ==
  /\ mainPhase = "input"
  /\ \E urlValid \in BOOLEAN :
       IF urlValid
       THEN /\ appDir' = [ appDir EXCEPT !.resources = TRUE ]
            /\ mainPhase' = "resolve"
            /\ UNCHANGED << mainError, exitCode, diagnostic >>
       ELSE /\ mainPhase' = "failed"
            /\ mainError' = "InvalidUrl"
            /\ exitCode' = IF variant = "js" THEN "1" ELSE exitCode
            /\ diagnostic' = IF variant = "js" THEN "oneLine" ELSE diagnostic
            /\ UNCHANGED appDir
  /\ UNCHANGED << builds, binAtBuild, buildOutcome, cleanupRan, cleanupWarned,
                  binaryName, listed, listCalls >>
  /\ UNCHANGED << locEnvVars, working, rPc, rResult, rOutcome, locHistVars >>
  /\ UNCHANGED ensureVars
  /\ UNCHANGED outsideMain

\* resolveNeutralinoCommand and what it awaits
Locate ==
  /\ mainPhase = "resolve"
  /\ \/ ResolveStart
     \/ SharedInstallDone
     \/ GlobalInstallDone
     \/ MainContinue

\* `await ensureNeutralinoBinaries(neuCmd, appDir)` and what it awaits
Provision ==
  /\ mainPhase = "provision"
  /\ \/ EnsureStartJs
     \/ EnsureStartCjs
     \/ NeuUpdateDone
     \/ TagFetched
     \/ DownloadDone
     \/ ExtractDone

\* The main flow after `await ensureNeutralinoBinaries(...)`: a return is
\* followed by the spawn of `neu build`; a throw ends the run.
MainAfterEnsure ==
  /\ mainPhase = "provision"
  /\ EnsureEnded
  /\ IF provisionOk(ePc)
     THEN /\ mainPhase' = "build"
          /\ builds' = builds + 1
          /\ binAtBuild' = fs["bin"].files
          /\ UNCHANGED mainError
     ELSE /\ mainPhase' = "failed"
          /\ mainError' = eOutcome
          /\ UNCHANGED << builds, binAtBuild >>
  /\ UNCHANGED << appDir, buildOutcome, cleanupRan, cleanupWarned, exitCode,
                  binaryName, listed, listCalls,
                  diagnostic >>
  /\ UNCHANGED << locEnvVars, working, rPc, rResult, rOutcome, locHistVars >>
  /\ UNCHANGED ensureVars
  /\ UNCHANGED outsideMain

\* whether cleanup target t exists
targetExists(a, f, t) ==
  CASE t = "releaseZip" -> a.releaseZip
    [] t = "resources"  -> a.resources
    [] OTHER            -> f["bin"].exists

\* the targets of the loop up to the first one in F
upToFailure(F) ==
  { CleanupTargets[i] : i \in { j \in 1..Len(CleanupTargets) :
       \A k \in 1..j : k < j => CleanupTargets[k] \notin F } }

cleanupLoop_abortsOnFailure(a, f, F) ==
  LET done == upToFailure(F)
  IN [ appDir |-> [ a EXCEPT
                      !.releaseZip = @ /\ ~("releaseZip" \in done \ F),
                      !.resources = @ /\ ~("resources" \in done \ F) ],
       fs |-> IF "bin" \in done \ F THEN rmSync(f, "bin") ELSE f,
       warned |-> { t \in F \cap done : targetExists(a, f, t) } ]

\* The cleanup loop over CleanupTargets.  F holds the targets whose
\* fs.rmSync throws; the throw is caught inside the loop body and warned,
\* and the loop goes on with the next target.
cleanupLoop(a, f, F) ==
  [ appDir |-> [ a EXCEPT !.releaseZip = @ /\ ("releaseZip" \in F),
                          !.resources = @ /\ ("resources" \in F) ],
    fs |-> IF "bin" \in F THEN f ELSE rmSync(f, "bin"),
    warned |-> { t \in F : targetExists(a, f, t) } ]

\* `neu build` has ended; the listing of the outputs, the output check
\* (cjs) and the cleanup follow without an await.
BuildDone ==
  /\ mainPhase = "build"
  /\ \E o \in BuildOutcomes, od \in OutDirContents(binaryName), zip \in BOOLEAN,
        F \in SUBSET { "releaseZip", "resources", "bin" } :
       LET a1 == [ appDir EXCEPT !.outDir = od, !.releaseZip = zip ]
           r  == listExecutables(a1.outDir, binaryName)
           c  == cleanupLoop(a1, fs, F)
       IN /\ buildOutcome' = o
          /\ IF runCommandSettles(o) = "reject"
             THEN /\ F = {}
                  /\ appDir' = a1
                  /\ mainPhase' = "failed"
                  /\ mainError' = "CommandFailed"
                  /\ UNCHANGED << fs, cleanupRan, cleanupWarned, exitCode, listed,
                                  listCalls >>
             ELSE IF noOutputsError(variant, r)
             THEN /\ F = {}
                  /\ appDir' = a1
                  /\ listed' = r
                  /\ listCalls' = listCalls + 1
                  /\ mainPhase' = "failed"
                  /\ mainError' = "NoOutputsProduced"
                  /\ UNCHANGED << fs, cleanupRan, cleanupWarned, exitCode >>
             ELSE /\ F \subseteq { t \in { "releaseZip", "resources", "bin" } :
                                     targetExists(a1, fs, t) }
                  /\ appDir' = c.appDir
                  /\ fs' = c.fs
                  /\ listed' = r
                  /\ listCalls' = listCalls + 1
                  /\ cleanupRan' = TRUE
                  /\ cleanupWarned' = c.warned
                  /\ mainPhase' = "done"
                  /\ exitCode' = "0"
                  /\ UNCHANGED mainError
  /\ UNCHANGED << builds, binAtBuild, binaryName, diagnostic >>
  /\ UNCHANGED << locEnvVars, working, rPc, rResult, rOutcome, locHistVars >>
  /\ UNCHANGED << envVars, ePc, eOutcome, locVars, histVars >>
  /\ UNCHANGED outsideMain

\* The rejection of the main flow reaches the top level: the cjs edition
\* catches it, prints `! <message>` and calls process.exit(1); the js
\* edition has no handler and the process ends on the unhandled rejection.
MainRejected ==
  /\ mainPhase = "failed"
  /\ exitCode = "none"
  /\ exitCode' = "1"
  /\ LET err == IF mainError # "none" THEN mainError ELSE rOutcome IN
     /\ mainError' = err
     /\ diagnostic' \in (IF variant = "cjs" THEN MessageShapes(err)
                         ELSE { "uncaught" })
  /\ UNCHANGED << appDir, builds, binAtBuild, buildOutcome, cleanupRan,
                  cleanupWarned, binaryName, listed, listCalls >>
  /\ UNCHANGED locateVars
  /\ UNCHANGED ensureVars
  /\ UNCHANGED outsideMain

NextMain ==
  \/ MainStart
  \/ Locate
  \/ Provision
  \/ MainAfterEnsure
  \/ BuildDone
  \/ MainRejected

SpecMain == InitMain /\ [][NextMain]_vars

(***************************************************************************)
(* listExecutables alone, on output directories of any content             *)
(***************************************************************************)
MaxEntries == 3

\* the binary names listExecutables may be called with
ListBinaryNames == BinaryNames \cup { << "resources" >> }

\* names an entry of the output directory may have
ListNames(b) ==
  { b \o << "-linux_x64" >>, b \o << "-release.zip" >>, b,
    << "resources", ".neu" >>, << "other", "-release.zip" >>,
    << "readme", ".txt" >> }

\* the output directories: at most MaxEntries entries, no name twice
ListDirs(b) ==
  { NoOutDir } \cup
  { [ exists |-> TRUE, entries |-> E ] :
      E \in { X \in SUBSET { Entry(n, f) : n \in ListNames(b), f \in BOOLEAN } :
                /\ Cardinality(X) <= MaxEntries
                /\ \A x, y \in X : x.name = y.name => x = y } }

InitList ==
  /\ variant \in Variants
  /\ binaryName \in ListBinaryNames
  /\ appDir \in { [ resources |-> TRUE, releaseZip |-> FALSE, outDir |-> d ] :
                    d \in ListDirs(binaryName) }
  /\ builds = 0
  /\ binAtBuild = {}
  /\ buildOutcome = "none"
  /\ mainError = "none"
  /\ cleanupRan = FALSE
  /\ cleanupWarned = {}
  /\ exitCode = "none"
  /\ listed = [ executables |-> {}, archives |-> {} ]
  /\ listCalls = 0
  /\ diagnostic = "none"
  /\ EnsureUnused
  /\ LocateUnused
  /\ RunUnused
  /\ FetchUnused
  /\ FlattenUnused
  /\ ProbeUnused
  /\ TagReqUnused
  /\ PromptUnused
  /\ ConcUnused
  /\ MoveUnused

\* const { executables, archives } = listExecutables(appDir, binaryName)
ListOutputs ==
  /\ listCalls = 0
  /\ listed' = listExecutables(appDir.outDir, binaryName)
  /\ listCalls' = listCalls + 1
  /\ UNCHANGED << appDir, builds, binAtBuild, buildOutcome, mainError,
                  cleanupRan, cleanupWarned, exitCode, binaryName, diagnostic >>
  /\ UNCHANGED << ensureVars, locateVars >>
  /\ UNCHANGED outsideMain

NextList == ListOutputs

SpecList == InitList /\ [][NextList]_vars

(***************************************************************************)
(* Properties of the main flow                                             *)
(***************************************************************************)
\* C18: `neu build` is spawned only when all 7 required runtimes are in
\* <appDir>/bin; locate, provision and build run in that order, and a
\* failure of locating or of provisioning means the build is never started.
C18_BuildOnlyWhenProvisioned ==
  /\ builds <= 1
  /\ builds = 1 =>
       /\ binAtBuild = NeuBinarySet
       /\ rPc = "returned"
       /\ ePc = "returned"
  /\ (rPc = "threw" \/ ePc = "threw") => builds = 0
  /\ (ePc # "idle" \/ directStarted \/ nUpdate > 0) => rPc = "returned"
  /\ mainPhase \in { "build", "done" } => builds = 1

\* the CLI had to be installed, the runtimes had to be downloaded, and the
\* build was then spawned
C18_Witness ==
  /\ builds = 1
  /\ findCalls = 2
  /\ directStarted
  /\ binAtBuild = NeuBinarySet

\* the build ended with code 0 and left nothing that listExecutables reports
BuiltWithoutOutputs ==
  /\ buildOutcome = "exit0"
  /\ listed.executables = {}
  /\ listed.archives = {}

\* C19: when `neu build` exits 0 and the output directory is missing or
\* holds neither an executable nor an archive, the run fails with the
\* no-outputs error and a non-zero exit code; it never ends as a success
\* and the post-build cleanup is not performed.
C19_NoOutputsIsFailure ==
  BuiltWithoutOutputs =>
     /\ mainPhase = "failed"
     /\ mainError = "NoOutputsProduced"
     /\ exitCode # "0"
     /\ ~cleanupRan

\* the run has ended, and what it printed and returned
Ended == exitCode # "none"

\* locate, provision, build and the output check all succeeded
AllSucceeded ==
  /\ rPc = "returned"
  /\ ePc = "returned"
  /\ buildOutcome = "exit0"
  /\ ~(listed.executables = {} /\ listed.archives = {})

\* C21: every fatal error of a run reaches the top level, prints a one-line
\* diagnostic and ends the process with exit code 1; a run ends with exit
\* code 0 only if locate, provision, build and the output check succeeded.
C21_FatalErrorsExitOne ==
  /\ (mainPhase = "failed" /\ Ended) =>
        /\ exitCode = "1"
        /\ diagnostic = "oneLine"
  /\ exitCode = "0" => AllSucceeded

ResourcesNeu == << "resources", ".neu" >>
ReleaseZipSuffix == << "-release.zip" >>

\* what is reported is taken from the regular files of the directory, and
\* the archives are the files whose name ends with "-release.zip"
ArchivesAsClaimed ==
  /\ listed.archives \subseteq appDir.outDir.entries
  /\ listed.executables \subseteq appDir.outDir.entries
  /\ \A e \in appDir.outDir.entries :
       /\ e \in listed.archives <=> (e.isFile /\ endsWith(e.name, ReleaseZipSuffix))
       /\ ~e.isFile => (e \notin listed.archives /\ e \notin listed.executables)

\* C30 (as claimed): a file is an archive iff its name ends with
\* "-release.zip" and an executable iff its name starts with the binary
\* name and is not "resources.neu"; directories are never reported and a
\* missing output directory yields two empty lists.
C30_EveryPrefixedFileIsExecutable ==
  listCalls = 1 =>
     /\ ~appDir.outDir.exists => (listed.executables = {} /\ listed.archives = {})
     /\ appDir.outDir.exists =>
          /\ ArchivesAsClaimed
          /\ \A e \in appDir.outDir.entries :
               e \in listed.executables <=>
                 /\ e.isFile
                 /\ startsWith(e.name, binaryName)
                 /\ e.name # ResourcesNeu

\* C30 (amended): as above, except that a file is an executable iff its
\* name starts with the binary name, does not end with "-release.zip" and
\* is not "resources.neu".
C30_Classification ==
  listCalls = 1 =>
     /\ ~appDir.outDir.exists => (listed.executables = {} /\ listed.archives = {})
     /\ appDir.outDir.exists =>
          /\ ArchivesAsClaimed
          /\ \A e \in appDir.outDir.entries :
               e \in listed.executables <=>
                 /\ e.isFile
                 /\ startsWith(e.name, binaryName)
                 /\ ~endsWith(e.name, ReleaseZipSuffix)
                 /\ e.name # ResourcesNeu

\* the directory holds <name>-linux_x64, <name>-release.zip and a
\* directory called <name>: one executable, one archive
C30_Witness ==
  /\ listCalls = 1
  /\ appDir.outDir.entries = { ExeEntry(binaryName), ZipEntry(binaryName),
                               SubdirEntry(binaryName) }
  /\ listed = [ executables |-> { ExeEntry(binaryName) },
                archives |-> { ZipEntry(binaryName) } ]

(***************************************************************************)
(* Output normalisation: flattenNestedOutput                               *)
(*                                                                         *)
(* The base directory is modelled two levels deep: outer = <base>/<name>,  *)
(* its entries, and the entries of inner = <base>/<name>/<name>.           *)
(***************************************************************************)
\* calls of flattenNestedOutput on one base directory
MaxFlattenCalls == 3

\* the name argument (the binary name)
FlatName == "app"

\* the entry names of a directory: the binary name and another one
EntryNames == { FlatName, "a" }

\* what a path may be: absent, a file, a symbolic link, an empty directory,
\* a directory with content
LeafKinds == { "none", "file", "link", "dir", "fulldir" }

NoEntries == [ n \in EntryNames |-> "none" ]

\* the orders in which readdirSync may list the entries
ReaddirOrders == { << "a", FlatName >>, << FlatName, "a" >> }

\* The base directories.  inner is the entry FlatName of outer and has
\* entries only when it is a directory; outer may be a symbolic link to a
\* directory.
Trees ==
  { [ base |-> FALSE, outer |-> "none", outerEntries |-> NoEntries,
      innerEntries |-> NoEntries ] }
  \cup
  { [ base |-> TRUE, outer |-> k, outerEntries |-> NoEntries,
      innerEntries |-> NoEntries ] : k \in { "none", "file" } }
  \cup
  { t \in [ base : { TRUE }, outer : { "dir", "link" },
            outerEntries : [ EntryNames -> LeafKinds ],
            innerEntries : [ EntryNames -> LeafKinds ] ] :
      /\ t.outerEntries[FlatName] # "fulldir"
      /\ (t.outerEntries[FlatName] # "dir") => (t.innerEntries = NoEntries) }

\* fs.existsSync(inner) && lstat(inner).isDirectory() && lstat(outer).isDirectory()
nested(t) ==
  /\ t.base
  /\ t.outer = "dir"
  /\ t.outerEntries[FlatName] = "dir"

\* fs.renameSync(inner/n, outer/n): whether it throws.  The target
\* outer/FlatName is inner itself, a directory that holds the source.
\* Replacing an empty directory by a directory succeeds on POSIX only.
renameThrows(t, n, posix) ==
  LET ks == t.innerEntries[n]
      kd == t.outerEntries[n]
  IN \/ n = FlatName
     \/ (ks \in { "file", "link" } /\ kd \in { "dir", "fulldir" })
     \/ (ks \in { "dir", "fulldir" } /\ kd \in { "file", "link", "fulldir" })
     \/ (ks \in { "dir", "fulldir" } /\ kd = "dir" /\ ~posix)

\* fs.renameSync(inner/n, outer/n) when it does not throw
renameSync(t, n) ==
  [ t EXCEPT !.outerEntries[n] = t.innerEntries[n],
             !.innerEntries[n] = "none" ]

\* the loop over fs.readdirSync(inner), from position i of the listing
RECURSIVE renameLoop(_, _, _, _)
renameLoop(t, order, i, posix) ==
  IF i > Len(order) THEN [ tree |-> t, threw |-> FALSE ]
  ELSE IF t.innerEntries[order[i]] = "none"
       THEN renameLoop(t, order, i + 1, posix)
  ELSE IF renameThrows(t, order[i], posix)
       THEN [ tree |-> t, threw |-> TRUE ]
  ELSE renameLoop(renameSync(t, order[i]), order, i + 1, posix)

removeInner_noop(t) == t

\* fs.rmSync(inner, { recursive: true, force: true })
removeInner(t) ==
  [ t EXCEPT !.outerEntries[FlatName] = "none", !.innerEntries = NoEntries ]

flattenNestedOutput(t, order, posix) ==
  IF ~t.base THEN [ tree |-> t, ret |-> "null" ]
  ELSE IF ~nested(t) THEN [ tree |-> t, ret |-> "null" ]
  ELSE LET r == renameLoop(t, order, 1, posix) IN
       IF r.threw THEN [ tree |-> r.tree, ret |-> "threw" ]
       ELSE [ tree |-> removeInner(r.tree), ret |-> "outer" ]

\* (flattenNestedOutput belongs to the earlier script; variant plays no part)
InitFlatten ==
  /\ variant = "js"
  /\ tree \in Trees
  /\ flCalls = 0
  /\ lastRet = "none"
  /\ prevRet = "none"
  /\ treeBefore = tree
  /\ EnsureUnused
  /\ LocateUnused
  /\ RunUnused
  /\ FetchUnused
  /\ MainUnused
  /\ ProbeUnused
  /\ TagReqUnused
  /\ PromptUnused
  /\ ConcUnused
  /\ MoveUnused

\* one call flattenNestedOutput(base, name)
Flatten ==
  /\ flCalls < MaxFlattenCalls
  /\ \E order \in ReaddirOrders, posix \in BOOLEAN :
       LET r == flattenNestedOutput(tree, order, posix) IN
       /\ tree' = r.tree
       /\ lastRet' = r.ret
  /\ prevRet' = lastRet
  /\ treeBefore' = tree
  /\ flCalls' = flCalls + 1
  /\ UNCHANGED outsideFlatten

NextFlatten == Flatten

SpecFlatten == InitFlatten /\ [][NextFlatten]_vars

\* <base>/<name>/<name> is a directory inside the directory <base>/<name>
hasNestedDir(t) ==
  t.base /\ t.outer = "dir" /\ t.outerEntries[FlatName] = "dir"

\* C20: on a base without a nested <name>/<name> directory a call returns
\* null, raises nothing and changes nothing; after a flatten that succeeded
\* the next call is such a no-op.
C20_FlattenIdempotent ==
  /\ (flCalls > 0 /\ ~hasNestedDir(treeBefore)) =>
        (lastRet = "null" /\ tree = treeBefore)
  /\ lastRet = "outer" => ~hasNestedDir(tree)
  /\ (flCalls > 1 /\ prevRet = "outer") =>
        (lastRet = "null" /\ tree = treeBefore)

\* a nested layout with an entry was flattened, and the call after that
\* returned null and left the directory as it was
C20_Witness ==
  /\ flCalls = 2
  /\ prevRet = "outer"
  /\ lastRet = "null"
  /\ tree = treeBefore
  /\ tree.outerEntries["a"] # "none"

\* the entries of inner that the last call renamed into outer
moved(before, after) ==
  { n \in EntryNames :
      before.innerEntries[n] # "none" /\ after.innerEntries[n] = "none" }

\* the entries outer had, beside inner, that the last call replaced
replaced(before, after) ==
  { n \in moved(before, after) \ { FlatName } : before.outerEntries[n] # "none" }

\* C34: after a flatten that returned outer every entry inner had is an
\* entry of outer, inner is gone, and no entry that outer had beside inner
\* was replaced.
C34_FlattenLosesNothing ==
  lastRet = "outer" =>
    /\ \A n \in EntryNames :
         treeBefore.innerEntries[n] # "none" =>
           tree.outerEntries[n] = treeBefore.innerEntries[n]
    /\ tree.innerEntries = NoEntries
    /\ ~hasNestedDir(tree)
    /\ replaced(treeBefore, tree) = {}

\* What holds of a flatten that returned outer: inner had no entry called
\* <name>, every entry it had is an entry of outer, inner is gone, and the
\* entries of outer whose names inner did not use are as they were.
C34_KeepsWhatDoesNotCollide ==
  lastRet = "outer" =>
    /\ treeBefore.innerEntries[FlatName] = "none"
    /\ \A n \in EntryNames :
         treeBefore.innerEntries[n] # "none" =>
           tree.outerEntries[n] = treeBefore.innerEntries[n]
    /\ tree.innerEntries = NoEntries
    /\ tree.outerEntries[FlatName] = "none"
    /\ \A n \in EntryNames \ { FlatName } :
         treeBefore.innerEntries[n] = "none" =>
           tree.outerEntries[n] = treeBefore.outerEntries[n]

(***************************************************************************)
(* The version probe: getNeuVersion                                        *)
(*                                                                         *)
(* A line of output is a sequence of tokens.  "neu" and "cli" stand for    *)
(* the two words of the label in any letter case, ":" and " " for a colon  *)
(* and for white space, "6.4.0" for a semantic version (with or without a  *)
(* leading v) and "x" for any other run of [\w.-] characters.              *)
(***************************************************************************)
MaxLineLen == 4

Alphabet == { "neu", "cli", ":", " ", "6.4.0", "x" }

\* the characters of [\w.\-]
WordTokens == { "neu", "cli", "6.4.0", "x" }

\* the characters of [:\s]
SepTokens == { ":", " " }

\* "neu cli: 6.4.0"
ExampleLine == << "neu", " ", "cli", ":", " ", "6.4.0" >>

SeqsUpTo(S, n) == UNION { [ 1..k -> S ] : k \in 0..n }

\* the lines a probe may print first
FirstLines == SeqsUpTo(Alphabet, MaxLineLen) \cup { ExampleLine }

\* the line it may print after it (<< >>: an empty line)
SecondLines == { << >>, << " " >>, << "neu", "cli", ":", "x" >>,
                 << "x", " ", "6.4.0", "x" >> }

\* stdout of a probe that exited with code 0
Outputs == { << >> } \cup { << a >> : a \in FirstLines }
             \cup { << a, b >> : a \in FirstLines, b \in SecondLines }

\* the outputs drawn where the loop over the attempts is studied
ProbeOutputs == { << >>, << ExampleLine >>, << << "x" >> >>,
                  << << "6.4.0" >>, << "neu", "cli", " ", "x" >> >> }

RECURSIVE trimStart(_)
trimStart(l) ==
  IF l # << >> /\ Head(l) = " " THEN trimStart(Tail(l)) ELSE l

RECURSIVE trimEnd(_)
trimEnd(l) ==
  IF l # << >> /\ l[Len(l)] = " " THEN trimEnd(SubSeq(l, 1, Len(l) - 1)) ELSE l

\* String.prototype.trim on one line
trim(l) == trimEnd(trimStart(l))

\* out.split(/\r?\n/).map((l) => l.trim()).filter(Boolean)
splitLines(out) == SelectSeq([ i \in 1..Len(out) |-> trim(out[i]) ],
                             LAMBDA l : l # << >>)

\* the index of the first token at or after i that is not in S
RECURSIVE skip(_, _, _)
skip(l, i, S) ==
  IF i <= Len(l) /\ l[i] \in S THEN skip(l, i + 1, S) ELSE i

\* /neu\s*cli[:\s]+(v?[\w.\-]+)/i tried at position i: the capture group,
\* or << >> when the pattern does not match there
labelAt(l, i) ==
  IF i > Len(l) \/ l[i] # "neu" THEN << >>
  ELSE LET j == skip(l, i + 1, { " " })
       IN IF j > Len(l) \/ l[j] # "cli" THEN << >>
          ELSE LET k == skip(l, j + 1, SepTokens)
                   n == skip(l, k, WordTokens)
               IN IF k = j + 1 THEN << >> ELSE SubSeq(l, k, n - 1)

\* line.match(...) : the leftmost match
RECURSIVE labelFrom(_, _)
labelFrom(l, i) ==
  IF i > Len(l) THEN << >>
  ELSE IF labelAt(l, i) # << >> THEN labelAt(l, i)
  ELSE labelFrom(l, i + 1)

\* for (const line of lines) { const m = line.match(...); if (m) ... break }
RECURSIVE labelVersion(_)
labelVersion(ls) ==
  IF ls = << >> THEN << >>
  ELSE IF labelFrom(Head(ls), 1) # << >> THEN labelFrom(Head(ls), 1)
  ELSE labelVersion(Tail(ls))

\* /v?\d+\.\d+\.\d+(?:[.\w-]*)?/ in one line: the leftmost match
RECURSIVE semverFrom(_, _)
semverFrom(l, i) ==
  IF i > Len(l) THEN << >>
  ELSE IF l[i] = "6.4.0" THEN SubSeq(l, i, skip(l, i, WordTokens) - 1)
  ELSE semverFrom(l, i + 1)

\* out.match(...): the pattern cannot match across a line break
RECURSIVE semverVersion(_)
semverVersion(ls) ==
  IF ls = << >> THEN << >>
  ELSE IF semverFrom(Head(ls), 1) # << >> THEN semverFrom(Head(ls), 1)
  ELSE semverVersion(Tail(ls))

Detected == [ kind |-> "detected", text |-> << >> ]
Version(t) == [ kind |-> "version", text |-> t ]
NullVersion == [ kind |-> "null", text |-> << >> ]
PendingVersion == [ kind |-> "pending", text |-> << >> ]

parseVersion_semverFirst(out) ==
  LET ls == splitLines(out)
  IN IF ls = << >> THEN Detected
     ELSE IF semverVersion(ls) # << >> THEN Version(semverVersion(ls))
     ELSE IF labelVersion(ls) # << >> THEN Version(labelVersion(ls))
     ELSE Detected

\* what getNeuVersion returns for the stdout of an invocation that exited
\* with code 0
parseVersion(out) ==
  LET ls == splitLines(out)
  IN IF ls = << >> THEN Detected
     ELSE IF labelVersion(ls) # << >> THEN Version(labelVersion(ls))
     ELSE IF semverVersion(ls) # << >> THEN Version(semverVersion(ls))
     ELSE Detected

\* the version flags, in the order of the loop
VersionFlags == << "version", "--version", "-v" >>

\* the attempts pushed for one version flag
attemptsFor(sub, plat, ps1) ==
  << [ sub |-> sub, how |-> "direct" ], [ sub |-> sub, how |-> "shell" ] >>
  \o (IF plat = "win32" /\ ps1
      THEN << [ sub |-> sub, how |-> "powershell" ] >> ELSE << >>)

\* const attempts = []; for (const sub of [...]) { attempts.push(...) }
attempts(plat, ps1) ==
  attemptsFor(VersionFlags[1], plat, ps1)
  \o attemptsFor(VersionFlags[2], plat, ps1)
  \o attemptsFor(VersionFlags[3], plat, ps1)

\* how an invocation that is not accepted may end: a non-zero or null
\* status, res.error set, or spawnSync throwing (caught)
FailedProbes == { "nonZero", "spawnError", "threw" }

succeeded_any(how) == TRUE

\* res.status === 0 && !res.error
succeeded(how) == how = "exit0"

InitProbe ==
  /\ variant \in Variants
  /\ probePlatform \in { "linux", "win32" }
  /\ isPs1 \in BOOLEAN
  /\ attemptIdx = 1
  /\ probesRun = << >>
  /\ probeOut = << >>
  /\ probeResult = PendingVersion
  /\ EnsureUnused
  /\ LocateUnused
  /\ RunUnused
  /\ FetchUnused
  /\ MainUnused
  /\ FlattenUnused
  /\ TagReqUnused
  /\ PromptUnused
  /\ ConcUnused
  /\ MoveUnused

\* One pass of `for (const attempt of attempts)`: the invocation is spawned
\* and ends as `how` with `out` on its stdout.
Attempt(how, out) ==
  /\ probeResult = PendingVersion
  /\ attemptIdx <= Len(attempts(probePlatform, isPs1))
  /\ probesRun' = Append(probesRun,
        [ attempt |-> attempts(probePlatform, isPs1)[attemptIdx],
          how |-> how ])
  /\ attemptIdx' = attemptIdx + 1
  /\ IF succeeded(how)
     THEN /\ probeOut' = out
          /\ probeResult' = parseVersion(out)
     ELSE UNCHANGED << probeOut, probeResult >>
  /\ UNCHANGED << variant, probePlatform, isPs1 >>
  /\ UNCHANGED outsideProbe

\* an invocation exits with code 0
AttemptAccepted == \E out \in ProbeOutputs : Attempt("exit0", out)

\* an invocation fails
AttemptFailed == \E how \in FailedProbes : Attempt(how, << >>)

\* the loop is over: return null
ReturnNull ==
  /\ probeResult = PendingVersion
  /\ attemptIdx > Len(attempts(probePlatform, isPs1))
  /\ probeResult' = NullVersion
  /\ UNCHANGED << variant, probePlatform, isPs1, attemptIdx, probesRun,
                  probeOut >>
  /\ UNCHANGED outsideProbe

NextProbe ==
  \/ AttemptAccepted
  \/ AttemptFailed
  \/ ReturnNull

SpecProbe == InitProbe /\ [][NextProbe]_vars

\* The parser alone: the first invocation exits with code 0, with any of
\* Outputs on its stdout.
InitParse ==
  /\ variant = "cjs"
  /\ probePlatform = "linux"
  /\ isPs1 = FALSE
  /\ attemptIdx = 1
  /\ probesRun = << >>
  /\ probeOut \in Outputs
  /\ probeResult = PendingVersion
  /\ EnsureUnused
  /\ LocateUnused
  /\ RunUnused
  /\ FetchUnused
  /\ MainUnused
  /\ FlattenUnused
  /\ TagReqUnused
  /\ PromptUnused
  /\ ConcUnused
  /\ MoveUnused

ParseOutput == Attempt("exit0", probeOut)

NextParse == ParseOutput

SpecParse == InitParse /\ [][NextParse]_vars

(***************************************************************************)
(* Properties of the version probe                                         *)
(***************************************************************************)
\* the label pattern matches line l at i, with its version at k..n
LabelMatch(l, i, k, n) ==
  /\ l[i] = "neu"
  /\ \E j \in (i + 1)..(k - 2) :
       /\ l[j] = "cli"
       /\ \A a \in (i + 1)..(j - 1) : l[a] = " "
       /\ \A a \in (j + 1)..(k - 1) : l[a] \in SepTokens
  /\ n >= k
  /\ \A a \in k..n : l[a] \in WordTokens
  /\ (n < Len(l) => l[n + 1] \notin WordTokens)

HasLabel(l) ==
  \E i, k, n \in 1..Len(l) : LabelMatch(l, i, k, n)

\* the semantic-version pattern matches line l at k..n
SemverMatch(l, k, n) ==
  /\ l[k] = "6.4.0"
  /\ n >= k
  /\ \A a \in k..n : l[a] \in WordTokens
  /\ (n < Len(l) => l[n + 1] \notin WordTokens)

HasSemver(l) ==
  \E k, n \in 1..Len(l) : SemverMatch(l, k, n)

\* t is the version of the first label of the first line that has one
FirstLabel(out, t) ==
  \E a \in 1..Len(out) :
    /\ \A b \in 1..(a - 1) : ~HasLabel(out[b])
    /\ \E i, k, n \in 1..Len(out[a]) :
         /\ LabelMatch(out[a], i, k, n)
         /\ t = SubSeq(out[a], k, n)
         /\ \A i2, k2, n2 \in 1..Len(out[a]) :
              LabelMatch(out[a], i2, k2, n2) => i <= i2

\* t is the first semantic version of the output
FirstSemver(out, t) ==
  \E a \in 1..Len(out) :
    /\ \A b \in 1..(a - 1) : ~HasSemver(out[b])
    /\ \E k, n \in 1..Len(out[a]) :
         /\ SemverMatch(out[a], k, n)
         /\ t = SubSeq(out[a], k, n)
         /\ \A k2, n2 \in 1..Len(out[a]) :
              SemverMatch(out[a], k2, n2) => k <= k2

AnyLabel(out) == \E a \in 1..Len(out) : HasLabel(out[a])
AnySemver(out) == \E a \in 1..Len(out) : HasSemver(out[a])

\* C23: output with a "<label>: <version>" yields that version, whether or
\* not a semantic version occurs elsewhere; "neu cli: 6.4.0" yields 6.4.0;
\* output without the label but with a semantic version yields that
\* version; empty output, or output with neither, yields "detected".
C23_ParseRules ==
  probeResult # PendingVersion =>
     /\ AnyLabel(probeOut) =>
          /\ probeResult.kind = "version"
          /\ FirstLabel(probeOut, probeResult.text)
     /\ (~AnyLabel(probeOut) /\ AnySemver(probeOut)) =>
          /\ probeResult.kind = "version"
          /\ FirstSemver(probeOut, probeResult.text)
     /\ (~AnyLabel(probeOut) /\ ~AnySemver(probeOut)) =>
          probeResult = Detected
     /\ probeOut = << ExampleLine >> => probeResult = Version(<< "6.4.0" >>)
     /\ probeOut = << >> => probeResult = Detected

\* a semantic version on the first line, the label on the second: the
\* label's version is returned
C23_Witness ==
  /\ probeOut = << << "6.4.0" >>, << "neu", "cli", ":", "x" >> >>
  /\ probeResult = Version(<< "x" >>)

\* the invocations run so far are the first ones of the list, in its order
RunInOrder ==
  /\ Len(probesRun) = attemptIdx - 1
  /\ Len(probesRun) <= Len(attempts(probePlatform, isPs1))
  /\ \A i \in 1..Len(probesRun) :
       probesRun[i].attempt = attempts(probePlatform, isPs1)[i]

\* for each flag direct, then shell, then (Windows, .ps1) PowerShell
FixedOrder ==
  LET A == attempts(probePlatform, isPs1)
      perFlag == IF probePlatform = "win32" /\ isPs1 THEN 3 ELSE 2
  IN /\ Len(A) = 3 * perFlag
     /\ \A f \in 1..3 :
          /\ A[(f - 1) * perFlag + 1] = [ sub |-> VersionFlags[f], how |-> "direct" ]
          /\ A[(f - 1) * perFlag + 2] = [ sub |-> VersionFlags[f], how |-> "shell" ]
          /\ perFlag = 3 =>
               A[(f - 1) * perFlag + 3] = [ sub |-> VersionFlags[f], how |-> "powershell" ]

\* C26: the invocations are tried in the fixed order; the first one that
\* exits with code 0 is the last one run and its output alone gives the
\* result; the result is null exactly when every invocation of the list
\* was run and none exited with code 0.
C26_FirstSuccessDecides ==
  /\ FixedOrder
  /\ RunInOrder
  /\ \A i \in 1..Len(probesRun) :
       probesRun[i].how = "exit0" =>
          /\ i = Len(probesRun)
          /\ probeResult = parseVersion(probeOut)
          /\ probeResult.kind \in { "version", "detected" }
  /\ probeResult.kind \in { "version", "detected" } =>
       /\ probesRun # << >>
       /\ probesRun[Len(probesRun)].how = "exit0"
  /\ probeResult = NullVersion <=>
       /\ Len(probesRun) = Len(attempts(probePlatform, isPs1))
       /\ \A i \in 1..Len(probesRun) : probesRun[i].how # "exit0"
       /\ probeResult # PendingVersion

\* C26: once an invocation has exited with code 0, no invocation is run
C26_NoLaterInvocation ==
  [][(probeResult # PendingVersion) => probesRun' = probesRun]_vars

\* on Windows, for a .ps1 shim, the eighth invocation (shell, "-v") is the
\* first to exit with code 0
C26_Witness ==
  /\ probePlatform = "win32"
  /\ isPs1
  /\ Len(probesRun) = 8
  /\ probesRun[8] = [ attempt |-> [ sub |-> "-v", how |-> "shell" ], how |-> "exit0" ]
  /\ probeResult = Version(<< "6.4.0" >>)

(***************************************************************************)
(* The release-metadata lookup: fetchLatestNeutralinoTag                   *)
(*                                                                         *)
(* The body is a sequence of tokens: "{" and "}" delimit a JSON object,    *)
(* a "tag:..." token is a tag_name member, "null" is the JSON null.        *)
(***************************************************************************)
MaxBodyChunks == 3

\* the chunks a 'data' event may deliver
BodyChunks == { "{", "}", "tag:v6.5.0", "tag:6.5.0", "tag:", "null" }

\* res.statusCode
MetaStatuses == { 200, 403 }

\* the value of a tag_name member
tagNameOf(tok) ==
  CASE tok = "tag:v6.5.0" -> << "v", "6.5.0" >>
    [] tok = "tag:6.5.0"  -> << "6.5.0" >>
    [] OTHER              -> NoTag

\* JSON.parse(body): "threw", or the tag_name of the value parsed (NoTag
\* for null, for an object without tag_name and for an empty tag_name)
JSONparse(b) ==
  IF b = << "null" >> \/ b = << "{", "}" >>
  THEN [ threw |-> FALSE, tag_name |-> NoTag ]
  ELSE IF Len(b) = 3 /\ b[1] = "{" /\ b[3] = "}" /\ b[2] \notin { "{", "}", "null" }
  THEN [ threw |-> FALSE, tag_name |-> tagNameOf(b[2]) ]
  ELSE [ threw |-> TRUE, tag_name |-> NoTag ]

PendingTag == [ state |-> "pending", value |-> NoTag ]

\* resolve(v): a promise settles once
resolveTag(p, v) ==
  IF p.state = "pending" THEN [ state |-> "resolved", value |-> v ] ELSE p

\* const fallback = () => resolve(DEFAULT_NEU_TAG)
fallback(p) == resolveTag(p, DEFAULT_NEU_TAG)

\* the 'end' handler of the response
onEnd(p, status, b) ==
  IF status = 200 /\ ~JSONparse(b).threw /\ JSONparse(b).tag_name # NoTag
  THEN resolveTag(p, normalizeNeuTag(JSONparse(b).tag_name))
  ELSE fallback(p)

\* The state after `https.request(...)`, the registrations and req.end();
\* when https.request throws, the catch has called fallback.
InitTagReq ==
  /\ variant \in Variants
  /\ \E threw \in BOOLEAN :
       /\ tqPhase = IF threw THEN "over" ELSE "request"
       /\ tqPromise = IF threw THEN fallback(PendingTag) ELSE PendingTag
  /\ tqStatus = 0
  /\ tqBody = << >>
  /\ EnsureUnused
  /\ LocateUnused
  /\ RunUnused
  /\ FetchUnused
  /\ MainUnused
  /\ FlattenUnused
  /\ ProbeUnused
  /\ PromptUnused
  /\ ConcUnused
  /\ MoveUnused

\* the response callback: the status line and the headers have arrived
TagResponse ==
  /\ tqPhase = "request"
  /\ \E st \in MetaStatuses : tqStatus' = st
  /\ tqPhase' = "body"
  /\ UNCHANGED << variant, tqBody, tqPromise >>
  /\ UNCHANGED outsideTagReq

\* res.on("data", (chunk) => (body += chunk.toString("utf8")))
TagData ==
  /\ tqPhase = "body"
  /\ Len(tqBody) < MaxBodyChunks
  /\ \E c \in BodyChunks : tqBody' = Append(tqBody, c)
  /\ UNCHANGED << variant, tqPhase, tqStatus, tqPromise >>
  /\ UNCHANGED outsideTagReq

\* res.on("end", ...)
TagEnd ==
  /\ tqPhase = "body"
  /\ tqPromise' = onEnd(tqPromise, tqStatus, tqBody)
  /\ tqPhase' = "over"
  /\ UNCHANGED << variant, tqStatus, tqBody >>
  /\ UNCHANGED outsideTagReq

\* req.setTimeout(3000, () => req.destroy(new Error("timeout"))).  Before
\* a response the destroyed request emits 'error'; after the response has
\* been received the error goes to the response, which then emits neither
\* 'end' nor anything the function listens to.
TagTimeout ==
  /\ tqPhase \in { "request", "body" }
  /\ tqPhase' = IF tqPhase = "request" THEN "destroyed" ELSE "aborted"
  /\ UNCHANGED << variant, tqStatus, tqBody, tqPromise >>
  /\ UNCHANGED outsideTagReq

\* the peer closes the connection before the body is complete: the
\* response emits 'aborted' and 'close', and no 'end'
TagPrematureClose ==
  /\ tqPhase = "body"
  /\ tqPhase' = "aborted"
  /\ UNCHANGED << variant, tqStatus, tqBody, tqPromise >>
  /\ UNCHANGED outsideTagReq

\* req.on("error", fallback): a connection error, a socket error while the
\* body is read, or the error req.destroy was called with
TagRequestError ==
  /\ tqPhase \in { "request", "destroyed", "body" }
  /\ tqPromise' = fallback(tqPromise)
  /\ tqPhase' = "over"
  /\ UNCHANGED << variant, tqStatus, tqBody >>
  /\ UNCHANGED outsideTagReq

NextTagReq ==
  \/ TagResponse
  \/ TagData
  \/ TagEnd
  \/ TagTimeout
  \/ TagPrematureClose
  \/ TagRequestError

SpecTagReq == InitTagReq /\ [][NextTagReq]_vars

(***************************************************************************)
(* Properties of the release-metadata lookup                               *)
(***************************************************************************)
\* no event of the request is still to come
RequestOver == tqPhase \in { "over", "aborted" }

\* the lookup succeeded: status 200 and a body that is an object with a
\* non-empty tag_name
LookupSucceeded ==
  /\ tqStatus = 200
  /\ tqPhase = "over"
  /\ Len(tqBody) = 3
  /\ tqBody[1] = "{"
  /\ tqBody[2] \in { "tag:v6.5.0", "tag:6.5.0" }
  /\ tqBody[3] = "}"

\* C28: whatever the outcome of the metadata request, the promise of
\* fetchLatestNeutralinoTag is never rejected, is resolved once the request
\* is over, and is resolved with the default tag unless the lookup
\* succeeded.
C28_FailsOpen ==
  /\ tqPromise.state \in { "pending", "resolved" }
  /\ RequestOver => tqPromise.state = "resolved"
  /\ (tqPromise.state = "resolved" /\ ~LookupSucceeded) =>
       tqPromise.value = DEFAULT_NEU_TAG

(***************************************************************************)
(* The interactive prompts (web2app-cli.cjs) and the first writes          *)
(***************************************************************************)
NullUrl == << >>

\* `defaultUrl`
DefaultUrl == << "scheme", "example.com" >>

\* What the user may type: " " is white space, "scheme" is http:// or
\* https://, "host" is a run of characters allowed in a host, "bad" is a
\* character that is not.
PromptAnswers ==
  { << >>, << " " >>, << "host" >>, << " ", "host" >>,
    << "scheme", "host" >>, << "scheme" >>, << "bad" >>, << "host", "bad" >> }

\* new URL(candidate) does not throw
parsesAsURL(c) ==
  /\ Len(c) > 1
  /\ c[1] = "scheme"
  /\ \A i \in 2..Len(c) : c[i] \in { "host", "example.com" }

normalizeUrlInput(raw) ==
  IF raw = << >> THEN NullUrl
  ELSE LET candidate == trim(raw)
           prefixed  == IF candidate[1] = "scheme" THEN candidate
                        ELSE << "scheme" >> \o candidate
       IN  IF candidate = << >> THEN NullUrl
           ELSE IF parsesAsURL(prefixed) THEN prefixed ELSE NullUrl

\* the main flow calls fs.mkdirSync(resourcesDir) after
\* `await promptForBlueprint()` has returned
scaffoldReady_beforePrompts(pc) == pc \in { "asking", "answered" }

scaffoldReady(pc) == pc = "answered"

InitPrompt ==
  /\ pPc = "asking"
  /\ question = 1
  /\ urlAttempts = 0
  /\ targetUrl = NullUrl
  /\ lastAnswer = << >>
  /\ rlOpen = TRUE
  /\ interrupted = FALSE
  /\ pExit = "none"
  /\ pMessage = "none"
  /\ created = {}
  /\ variant = "cjs"
  /\ EnsureUnused
  /\ LocateUnused
  /\ RunUnused
  /\ FetchUnused
  /\ MainUnused
  /\ FlattenUnused
  /\ ProbeUnused
  /\ TagReqUnused
  /\ ConcUnused
  /\ MoveUnused

\* questions #1 and #3..#6 are answered
AnswerPlain ==
  /\ pPc = "asking"
  /\ question \in { 1, 3, 4, 5, 6 }
  /\ \E a \in PromptAnswers : lastAnswer' = trim(a)
  /\ question' = question + 1
  /\ UNCHANGED << pPc, urlAttempts, targetUrl, rlOpen, interrupted, pExit,
                  pMessage, created >>
  /\ UNCHANGED outsidePrompt

\* question #2 is answered: one pass of the URL loop, and what follows the
\* loop when it has ended without a URL
AnswerUrl ==
  /\ pPc = "asking"
  /\ question = 2
  /\ \E a \in PromptAnswers :
       LET answer    == trim(a)
           candidate == IF answer = << >> THEN DefaultUrl ELSE answer
           accepted  == normalizeUrlInput(candidate)
       IN  /\ lastAnswer' = answer
           /\ urlAttempts' = urlAttempts + 1
           /\ targetUrl' = accepted
           /\ IF accepted # NullUrl
              THEN /\ question' = 3
                   /\ UNCHANGED << pPc, rlOpen, pExit, pMessage >>
              ELSE IF urlAttempts + 1 < 3
              THEN UNCHANGED << question, pPc, rlOpen, pExit, pMessage >>
              ELSE /\ rlOpen' = FALSE
                   /\ pPc' = "exited"
                   /\ pExit' = "1"
                   /\ pMessage' = "A valid URL is required to continue."
                   /\ UNCHANGED question
  /\ UNCHANGED << interrupted, created >>
  /\ UNCHANGED outsidePrompt

\* question #7 is answered: close(), the summary, and the blueprint is
\* returned to the main flow
AnswerLast ==
  /\ pPc = "asking"
  /\ question = 7
  /\ \E a \in PromptAnswers : lastAnswer' = trim(a)
  /\ question' = 8
  /\ rlOpen' = FALSE
  /\ pPc' = "answered"
  /\ UNCHANGED << urlAttempts, targetUrl, interrupted, pExit, pMessage,
                  created >>
  /\ UNCHANGED outsidePrompt

\* Ctrl+C on the terminal while the interface is open: its SIGINT listener
Interrupt ==
  /\ rlOpen
  /\ pPc = "asking"
  /\ interrupted' = TRUE
  /\ pMessage' = "Exit requested. No files were created."
  /\ pExit' = "1"
  /\ pPc' = "exited"
  /\ UNCHANGED << question, urlAttempts, targetUrl, lastAnswer, rlOpen,
                  created >>
  /\ UNCHANGED outsidePrompt

\* fs.mkdirSync(resourcesDir, { recursive: true }) and the copy of the icon,
\* up to `await checkIframeSupport(url)`
MakeResourcesDir ==
  /\ scaffoldReady(pPc)
  /\ created = {}
  /\ \E icon \in BOOLEAN :
       created' = { "web2app_build", "resources" }
                    \cup (IF icon THEN { "icon" } ELSE {})
  /\ UNCHANGED << pPc, question, urlAttempts, targetUrl, lastAnswer, rlOpen,
                  interrupted, pExit, pMessage >>
  /\ UNCHANGED outsidePrompt

\* index.html and neutralino.config.json are written
WriteScaffold ==
  /\ scaffoldReady(pPc)
  /\ created # {}
  /\ created' = created \cup { "index.html", "neutralino.config.json" }
  /\ pPc' = "scaffolded"
  /\ UNCHANGED << question, urlAttempts, targetUrl, lastAnswer, rlOpen,
                  interrupted, pExit, pMessage >>
  /\ UNCHANGED outsidePrompt

NextPrompt ==
  \/ AnswerPlain
  \/ AnswerUrl
  \/ AnswerLast
  \/ Interrupt
  \/ MakeResourcesDir
  \/ WriteScaffold

SpecPrompt == InitPrompt /\ [][NextPrompt]_vars

\* C32: an interrupt is possible as long as the prompts are open and ends
\* the process with code 1 with nothing created; whatever has been created
\* was created after the seven questions were answered, a valid URL was
\* obtained and the interface was closed.
C32_NothingCreatedBeforeAnswers ==
  /\ (rlOpen /\ pExit = "none") => ENABLED Interrupt
  /\ interrupted => (pPc = "exited" /\ pExit = "1" /\ created = {})
  /\ pExit # "none" => created = {}
  /\ created # {} =>
       /\ question = 8
       /\ parsesAsURL(targetUrl)
       /\ ~rlOpen
       /\ ~interrupted

\* the interrupt arrives at question #5, after a URL was accepted on the
\* second attempt
C32_Witness ==
  /\ interrupted
  /\ question = 5
  /\ urlAttempts = 2
  /\ targetUrl = << "scheme", "host" >>
  /\ pExit = "1"
  /\ created = {}

(***************************************************************************)
(* Two ensureNeutralinoBinaries (web2app-cli.cjs) on one shared cache      *)
(*                                                                         *)
(* Two processes started in two project directories by the same user: the  *)
(* shared cache and <cache>/../.neu_download are the same paths for both,   *)
(* <baseDir>/bin is each one's own.  Every file-system call is a step of   *)
(* its own; the network is sound and the archive complete, so that either  *)
(* process succeeds when it runs alone.  Removing a directory removes the  *)
(* entries under it while a file already open stays writable (POSIX).       *)
(***************************************************************************)
Procs == { 1, 2 }

other(p) == 3 - p

\* path.join(baseDir, "bin") of process p
BinOf(p) == IF p = 1 THEN "bin1" ELSE "bin2"

ConcDirs == { "shared", "tmp", "bin1", "bin2" }

FullDir == [ exists |-> TRUE, files |-> NeuBinarySet ]

\* the positions between downloadNeutralinoDirectly's mkdirSync(tmpDir) and
\* the end of its copy loop: tmpDir is being used
usesTmp(pc) == pc \in { "open", "writing", "extract", "mkShared", "install" }

\* the positions between the cache being found or recreated and the end of
\* copySharedBinToProject: the shared cache is being used
usesShared(pc) == pc \in { "install", "finally", "verify", "rmBin", "copy" }

InitConc ==
  /\ \E c \in { AbsentDir, FullDir } :
       cfs = [ d \in ConcDirs |-> IF d = "shared" THEN c ELSE AbsentDir ]
  /\ zipWriters = << >>
  /\ zipFull = FALSE
  /\ cPc = [ p \in Procs |-> "start" ]
  /\ cIdx = [ p \in Procs |-> 0 ]
  /\ cOut = [ p \in Procs |-> "none" ]
  /\ removedUnder = [ p \in Procs |-> FALSE ]
  /\ disturbed = [ p \in Procs |-> FALSE ]
  /\ variant = "cjs"
  /\ EnsureUnused
  /\ LocateUnused
  /\ RunUnused
  /\ FetchUnused
  /\ MainUnused
  /\ FlattenUnused
  /\ ProbeUnused
  /\ TagReqUnused
  /\ PromptUnused
  /\ MoveUnused

\* process p goes to position pc
goto(p, pc) == cPc' = [ cPc EXCEPT ![p] = pc ]

\* process p removes directory d: the other one loses it if it was using it
removes(p, d) ==
  LET q == other(p)
      hit == \/ d = "tmp" /\ usesTmp(cPc[q])
             \/ d = "shared" /\ usesShared(cPc[q])
  IN  /\ removedUnder' = [ removedUnder EXCEPT ![q] = @ \/ hit ]
      /\ disturbed' = [ disturbed EXCEPT ![q] = @ \/ hit ]

\* fs.mkdirSync(sharedBin, { recursive: true })
CStart(p) ==
  /\ cPc[p] = "start"
  /\ cfs' = mkdirSync(cfs, "shared")
  /\ goto(p, "check")
  /\ UNCHANGED << zipWriters, zipFull, cIdx, cOut, removedUnder, disturbed >>
  /\ UNCHANGED outsideConc

\* getMissingNeutralinoBinaries(sharedBin) and the branch on it
CCheck(p) ==
  /\ cPc[p] = "check"
  /\ IF Len(getMissingNeutralinoBinaries(cfs, "shared")) = 0
     THEN goto(p, "rmBin")
     ELSE goto(p, "rmTmp")
  /\ UNCHANGED << cfs, zipWriters, zipFull, cIdx, cOut, removedUnder,
                  disturbed >>
  /\ UNCHANGED outsideConc

\* downloadNeutralinoDirectly: fs.rmSync(tmpDir)
CRmTmp(p) ==
  /\ cPc[p] = "rmTmp"
  /\ cfs' = rmSync(cfs, "tmp")
  /\ zipWriters' = << >>
  /\ zipFull' = FALSE
  /\ removes(p, "tmp")
  /\ goto(p, "rmShared")
  /\ UNCHANGED << cIdx, cOut >>
  /\ UNCHANGED outsideConc

\* downloadNeutralinoDirectly: fs.rmSync(binDir)
CRmShared(p) ==
  /\ cPc[p] = "rmShared"
  /\ cfs' = rmSync(cfs, "shared")
  /\ removes(p, "shared")
  /\ goto(p, "mkTmp")
  /\ UNCHANGED << zipWriters, zipFull, cIdx, cOut >>
  /\ UNCHANGED outsideConc

\* downloadNeutralinoDirectly: fs.mkdirSync(tmpDir)
CMkTmp(p) ==
  /\ cPc[p] = "mkTmp"
  /\ cfs' = mkdirSync(cfs, "tmp")
  /\ goto(p, "open")
  /\ UNCHANGED << zipWriters, zipFull, cIdx, cOut, removedUnder, disturbed >>
  /\ UNCHANGED outsideConc

\* downloadWithRedirect: fs.createWriteStream(destPath) opens the archive,
\* truncating the one that is there; without the directory the stream
\* fails and the promise is rejected
CDownloadOpen(p) ==
  /\ cPc[p] = "open"
  /\ IF ~cfs["tmp"].exists
     THEN /\ cOut' = [ cOut EXCEPT ![p] = "DownloadFailed" ]
          /\ goto(p, "finally")
          /\ UNCHANGED << cfs, zipWriters, zipFull, disturbed >>
     ELSE LET q == other(p)
              hit == ZipName \in cfs["tmp"].files
                       /\ cPc[q] \in { "writing", "extract" }
          IN  /\ cfs' = [ cfs EXCEPT !["tmp"].files = @ \cup { ZipName } ]
              /\ zipWriters' = Append(zipWriters, p)
              /\ zipFull' = FALSE
              /\ disturbed' = [ disturbed EXCEPT ![q] = @ \/ hit ]
              /\ goto(p, "writing")
              /\ UNCHANGED cOut
  /\ UNCHANGED << cIdx, removedUnder >>
  /\ UNCHANGED outsideConc

\* downloadWithRedirect: the stream's 'finish'.  Every writer writes the
\* same bytes from the start, so the file is whole once the process that
\* truncated it last has written it all.
CDownloadFinish(p) ==
  /\ cPc[p] = "writing"
  /\ zipWriters' = SelectSeq(zipWriters, LAMBDA w : w # p)
  /\ zipFull' = IF zipWriters # << >> /\ zipWriters[Len(zipWriters)] = p
                THEN TRUE ELSE zipFull
  /\ goto(p, "extract")
  /\ UNCHANGED << cfs, cIdx, cOut, removedUnder, disturbed >>
  /\ UNCHANGED outsideConc

\* await extract(zipPath, { dir: tmpDir })
CExtract(p) ==
  /\ cPc[p] = "extract"
  /\ IF existsSync(cfs, "tmp", ZipName) /\ zipFull
     THEN /\ cfs' = [ cfs EXCEPT !["tmp"].files = @ \cup NeuBinarySet ]
          /\ goto(p, "mkShared")
          /\ UNCHANGED cOut
     ELSE /\ cOut' = [ cOut EXCEPT ![p] = "ExtractFailed" ]
          /\ goto(p, "finally")
          /\ UNCHANGED cfs
  /\ UNCHANGED << zipWriters, zipFull, cIdx, removedUnder, disturbed >>
  /\ UNCHANGED outsideConc

\* downloadNeutralinoDirectly: fs.mkdirSync(binDir)
CMkShared(p) ==
  /\ cPc[p] = "mkShared"
  /\ cfs' = mkdirSync(cfs, "shared")
  /\ cIdx' = [ cIdx EXCEPT ![p] = 1 ]
  /\ goto(p, "install")
  /\ UNCHANGED << zipWriters, zipFull, cOut, removedUnder, disturbed >>
  /\ UNCHANGED outsideConc

\* downloadNeutralinoDirectly: one pass of the loop that copies from tmpDir
\* into the cache
CInstall(p) ==
  /\ cPc[p] = "install"
  /\ LET file == NEU_BINARIES[cIdx[p]]
     IN  IF cIdx[p] > Len(NEU_BINARIES)
         THEN /\ goto(p, "finally")
              /\ UNCHANGED << cfs, cIdx, cOut >>
         ELSE IF ~existsSync(cfs, "tmp", file)
         THEN /\ cIdx' = [ cIdx EXCEPT ![p] = @ + 1 ]
              /\ UNCHANGED << cfs, cPc, cOut >>
         ELSE IF ~cfs["shared"].exists
         THEN /\ cOut' = [ cOut EXCEPT ![p] = "CopyFailed" ]
              /\ goto(p, "finally")
              /\ UNCHANGED << cfs, cIdx >>
         ELSE /\ cfs' = copyFileSync(cfs, "tmp", "shared", file)
              /\ cIdx' = [ cIdx EXCEPT ![p] = @ + 1 ]
              /\ UNCHANGED << cPc, cOut >>
  /\ UNCHANGED << zipWriters, zipFull, removedUnder, disturbed >>
  /\ UNCHANGED outsideConc

\* downloadNeutralinoDirectly: finally { fs.rmSync(tmpDir) }, and the
\* pending error leaves ensure
CFinally(p) ==
  /\ cPc[p] = "finally"
  /\ cfs' = rmSync(cfs, "tmp")
  /\ zipWriters' = << >>
  /\ zipFull' = FALSE
  /\ removes(p, "tmp")
  /\ IF cOut[p] # "none" THEN goto(p, "threw") ELSE goto(p, "verify")
  /\ UNCHANGED << cIdx, cOut >>
  /\ UNCHANGED outsideConc

\* downloadNeutralinoDirectly: the check of missingAfter
CVerify(p) ==
  /\ cPc[p] = "verify"
  /\ IF Len(getMissingNeutralinoBinaries(cfs, "shared")) # 0
     THEN /\ cOut' = [ cOut EXCEPT ![p] = "IncompleteRuntimeDownload" ]
          /\ goto(p, "threw")
     ELSE /\ goto(p, "rmBin")
          /\ UNCHANGED cOut
  /\ UNCHANGED << cfs, zipWriters, zipFull, cIdx, removedUnder, disturbed >>
  /\ UNCHANGED outsideConc

\* copySharedBinToProject: rmSync and mkdirSync of the project's bin
CRmBin(p) ==
  /\ cPc[p] = "rmBin"
  /\ cfs' = mkdirSync(rmSync(cfs, BinOf(p)), BinOf(p))
  /\ cIdx' = [ cIdx EXCEPT ![p] = 1 ]
  /\ goto(p, "copy")
  /\ UNCHANGED << zipWriters, zipFull, cOut, removedUnder, disturbed >>
  /\ UNCHANGED outsideConc

\* copySharedBinToProject: one pass of its loop
CCopy(p) ==
  /\ cPc[p] = "copy"
  /\ LET file == NEU_BINARIES[cIdx[p]]
     IN  IF cIdx[p] > Len(NEU_BINARIES)
         THEN /\ cOut' = [ cOut EXCEPT ![p] = "ok" ]
              /\ goto(p, "returned")
              /\ UNCHANGED << cfs, cIdx >>
         ELSE IF ~existsSync(cfs, "shared", file)
         THEN /\ cOut' = [ cOut EXCEPT ![p] = "SharedRuntimeMissing" ]
              /\ goto(p, "threw")
              /\ UNCHANGED << cfs, cIdx >>
         ELSE /\ cfs' = copyFileSync(cfs, "shared", BinOf(p), file)
              /\ cIdx' = [ cIdx EXCEPT ![p] = @ + 1 ]
              /\ UNCHANGED << cPc, cOut >>
  /\ UNCHANGED << zipWriters, zipFull, removedUnder, disturbed >>
  /\ UNCHANGED outsideConc

NextConc ==
  \E p \in Procs :
    \/ CStart(p)
    \/ CCheck(p)
    \/ CRmTmp(p)
    \/ CRmShared(p)
    \/ CMkTmp(p)
    \/ CDownloadOpen(p)
    \/ CDownloadFinish(p)
    \/ CExtract(p)
    \/ CMkShared(p)
    \/ CInstall(p)
    \/ CFinally(p)
    \/ CVerify(p)
    \/ CRmBin(p)
    \/ CCopy(p)

SpecConc == InitConc /\ [][NextConc]_vars

\* C33: with a sound network a process fails only when the other one has
\* removed or truncated what it was using, and a process that returns has
\* all 7 binaries in its project's bin; the failure itself is reachable
\* (C33_Witness).
C33_FailsOnlyWhenDisturbed ==
  \A p \in Procs :
    /\ cPc[p] = "threw" => disturbed[p]
    /\ cPc[p] = "returned" => cfs[BinOf(p)] = FullDir

\* process 1 had filled the cache and was copying it to its project when
\* process 2, which had seen the cache incomplete, removed it; process 2
\* then succeeds
C33_Witness ==
  /\ cPc[1] = "threw"
  /\ cOut[1] = "SharedRuntimeMissing"
  /\ removedUnder[1]
  /\ cPc[2] = "returned"
  /\ ~disturbed[2]

(***************************************************************************)
(* moveBuildOutOfBin (earlier script)                                      *)
(***************************************************************************)
\* what an entry of a directory may be
MoveKinds == { "none", "file", "dir" }

\* bin/release/<name> or bin/<name>: `entries` are its entries, the one
\* called <name> among them, and `innerEntries` the entries of
\* <candidate>/<name> when that is a directory
NoCand ==
  [ kind |-> "none", entries |-> NoEntries, innerEntries |-> NoEntries ]

Candidates ==
  { NoCand, [ NoCand EXCEPT !.kind = "file" ] }
  \cup
  { c \in [ kind : { "dir" },
            entries : [ EntryNames -> MoveKinds ],
            innerEntries : [ EntryNames -> { "none", "file" } ] ] :
      /\ c.entries["a"] # "dir"
      /\ (c.entries[FlatName] # "dir") => (c.innerEntries = NoEntries) }

\* <appDir>/<name> before the call: absent, a file, or a directory whose
\* entries are those of an earlier build
Targets ==
  { [ kind |-> k, entries |-> NoEntries ] : k \in { "none", "file" } }
  \cup
  { [ kind |-> "dir", entries |-> e ] : e \in [ EntryNames -> { "none", "old" } ] }

MoveTrees ==
  { [ bin |-> FALSE, release |-> NoCand, direct |-> NoCand, target |-> t ] :
      t \in Targets }
  \cup
  [ bin : { TRUE }, release : Candidates, direct : Candidates,
    target : Targets ]

\* fs.existsSync(cand) && fs.lstatSync(cand).isDirectory()
isCandidate(c) == c.kind = "dir"

\* the loop over candidates: bin/release/<name> first, and in the first
\* one that is a directory the directory <name> when there is one
NoSource == [ found |-> FALSE, entries |-> NoEntries ]

sourceIn(c) ==
  [ found |-> TRUE,
    entries |-> IF c.entries[FlatName] = "dir" THEN c.innerEntries
                ELSE c.entries ]

findSource(t) ==
  IF isCandidate(t.release) THEN sourceIn(t.release)
  ELSE IF isCandidate(t.direct) THEN sourceIn(t.direct)
  ELSE NoSource

\* source && !fs.existsSync(target)
movesOut(t) == findSource(t).found /\ t.target.kind = "none"

\* mkdirSync(target) and the renames of the entries of source into it
moveEntries(t) ==
  [ t EXCEPT !.target = [ kind |-> "dir", entries |-> findSource(t).entries ] ]

\* fs.rmSync(binDir, { recursive: true, force: true })
removeBin(t) ==
  [ t EXCEPT !.bin = FALSE, !.release = NoCand, !.direct = NoCand ]

moveBuildOutOfBin(t) ==
  IF ~t.bin THEN [ tree |-> t, ret |-> "null" ]
  ELSE LET t1 == IF movesOut(t) THEN moveEntries(t) ELSE t
           t2 == removeBin(t1)
       IN  [ tree |-> t2,
             ret |-> IF t2.target.kind # "none" THEN "target" ELSE "null" ]

InitMove ==
  /\ mTree \in MoveTrees
  /\ mBefore = mTree
  /\ mRet = "none"
  /\ variant = "js"
  /\ EnsureUnused
  /\ LocateUnused
  /\ RunUnused
  /\ FetchUnused
  /\ MainUnused
  /\ FlattenUnused
  /\ ProbeUnused
  /\ TagReqUnused
  /\ PromptUnused
  /\ ConcUnused

\* one call moveBuildOutOfBin(appDir, name)
Move ==
  /\ mRet = "none"
  /\ LET r == moveBuildOutOfBin(mTree) IN
       /\ mTree' = r.tree
       /\ mRet' = r.ret
  /\ UNCHANGED mBefore
  /\ UNCHANGED outsideMove

NextMove == Move

SpecMove == InitMove /\ [][NextMove]_vars

\* the build output the call found under bin
foundOutput == findSource(mBefore)

\* every entry of the build output found is an entry of <appDir>/<name>
outputIsUnderTarget ==
  /\ mTree.target.kind = "dir"
  /\ \A n \in EntryNames :
       foundOutput.entries[n] # "none" =>
         mTree.target.entries[n] = foundOutput.entries[n]

\* C35: after a call that found a build output directory under bin, every
\* entry of that directory is an entry of <appDir>/<name>, whether
\* <appDir>/<name> existed or not; bin is gone only with its output moved.
C35_BuildOutputSurvives ==
  (mRet # "none" /\ mBefore.bin /\ foundOutput.found) =>
    /\ outputIsUnderTarget
    /\ ~mTree.bin

\* What holds: with <appDir>/<name> absent the output found is moved under
\* it before bin is removed, and the call returns the target; with
\* <appDir>/<name> present nothing under it changes; bin is removed by
\* every call that found it.
C35_MovedWhenTargetAbsent ==
  mRet # "none" =>
    /\ (mBefore.bin /\ foundOutput.found /\ mBefore.target.kind = "none") =>
         (outputIsUnderTarget /\ mRet = "target")
    /\ mBefore.target.kind # "none" =>
         (mTree.target = mBefore.target /\ (mBefore.bin => mRet = "target"))
    /\ mBefore.bin => ~mTree.bin
    /\ ~mBefore.bin => (mTree = mBefore)

====
